---- MODULE Spec2Model ----
(***************************************************************************)
(* Model of the corvino signal generation engine                           *)
(* (backend/signal_engine/generator.py and the components it drives).      *)
(*                                                                         *)
(* Numbers.  Prices and the ATR are integers counted in ticks.  Entries    *)
(* are multiples of 50 ticks, ATRs multiples of 20 ticks and levels even   *)
(* numbers of ticks, so that every product the code forms (0.02*entry,     *)
(* 0.1*atr, 0.3*atr, 1.5*atr, 1.5*risk) is an integer and the arithmetic   *)
(* below is exact.  Confidences are counted in hundredths of a point       *)
(* (7000 is 70.0), risk_reward in hundredths, position sizes in tenths.    *)
(***************************************************************************)
EXTENDS Integers, Sequences, FiniteSets, TLC

VARIABLES
    gen_in,            \* generate: the evidence of the call in progress
    gen_out,           \* generate: what the call produced, "pending" before
    supported_assets,  \* settings.supported_assets
    timeframes,        \* settings.supported_timeframes
    exclude_assets,    \* generate_all: the exclude_assets argument
    pc,                \* generate_all: position in the run
    asset_i,           \* generate_all: index of the asset being processed
    tf_i,              \* generate_all: index of the next timeframe
    asset_signals,     \* generate_all: candidates of the current asset
    final_signals,     \* generate_all: the list being returned
    evals,             \* generate_all: calls of generate, per <<asset index, tf index>>
    last_outcome,      \* generate_all: outcome of the latest generate call
    db,                \* the signals table: the rows committed so far
    req,               \* POST /generate: the state of each request in progress
    fn_in,             \* a component called on its own: the arguments
    fn_out             \* a component called on its own: what it returned

vars == << gen_in, gen_out, supported_assets, timeframes, exclude_assets, pc,
           asset_i, tf_i, asset_signals, final_signals, evals, last_outcome,
           db, req, fn_in, fn_out >>

genVars == << gen_in, gen_out >>
allVars == << supported_assets, timeframes, exclude_assets, pc, asset_i, tf_i,
              asset_signals, final_signals, evals, last_outcome >>
apiVars == << db, req >>
fnVars == << fn_in, fn_out >>

----------------------------------------------------------------------------
(* Arithmetic helpers *)

Abs(x) == IF x < 0 THEN 0 - x ELSE x

Min2(a, b) == IF a <= b THEN a ELSE b

Max2(a, b) == IF a >= b THEN a ELSE b

SetMax(S) == CHOOSE x \in S : \A y \in S : y <= x

SetMin(S) == CHOOSE x \in S : \A y \in S : x <= y

\* Python's round(): the integer nearest to n/d (d > 0, n >= 0), a tie going
\* to the even neighbour.
RoundHalfEven(n, d) ==
    LET q == n \div d
        r == n % d
    IN  IF 2 * r < d THEN q
        ELSE IF 2 * r > d THEN q + 1
        ELSE IF q % 2 = 0 THEN q ELSE q + 1

\* sorted(S): the elements of a finite set of integers in ascending order.
RECURSIVE SortAsc(_)
SortAsc(S) ==
    IF S = {} THEN << >>
    ELSE LET m == SetMin(S) IN << m >> \o SortAsc(S \ {m})

\* sorted(S, reverse=True)
RECURSIVE SortDesc(_)
SortDesc(S) ==
    IF S = {} THEN << >>
    ELSE LET m == SetMax(S) IN << m >> \o SortDesc(S \ {m})

\* str.upper() on the direction strings the model uses.
Upper(d) == IF d = "long" THEN "LONG" ELSE IF d = "short" THEN "SHORT" ELSE d

----------------------------------------------------------------------------
(* RiskCalculator *)

\* Default multipliers of RiskCalculator.__init__, in tenths.
atr_mult_sl == 20
atr_mult_tp1 == 15
atr_mult_tp2 == 25
atr_mult_tp3 == 40

\* RiskReward always taking the zero-risk branch.
RiskReward_mut(sum, risk) == [rr_num |-> 0, rr_den |-> 1]

\* risk_reward = reward_avg / risk if risk > 0 else 0.0, with reward_avg = sum / 3,
\* kept as the exact fraction rr_num / rr_den.
RiskReward(sum, risk) ==
    IF risk > 0 THEN [rr_num |-> sum, rr_den |-> 3 * risk] ELSE [rr_num |-> 0, rr_den |-> 1]

\* A plan as the 5-tuple (stop_loss, tp1, tp2, tp3, risk_reward) the calculator returns.
Plan(sl, tp1, tp2, tp3, sum, risk) ==
    [sl |-> sl, tp1 |-> tp1, tp2 |-> tp2, tp3 |-> tp3, rr |-> RiskReward(sum, risk)]

\* compute_levels with the SHORT targets on the LONG side.
compute_levels_mut(entry, atr0, direction) ==
    LET atr == IF atr0 <= 0 THEN entry \div 50 ELSE atr0
        sl_dist == (atr_mult_sl * atr) \div 10
        tp1_dist == (atr_mult_tp1 * atr) \div 10
        tp2_dist == (atr_mult_tp2 * atr) \div 10
        tp3_dist == (atr_mult_tp3 * atr) \div 10
        long == Upper(direction) = "LONG"
        stop_loss == IF long THEN entry - sl_dist ELSE entry + sl_dist
        risk == Abs(entry - stop_loss)
        sum == tp1_dist + tp2_dist + tp3_dist
    IN  Plan(stop_loss, entry + tp1_dist, entry + tp2_dist, entry + tp3_dist, sum, risk)

compute_levels(entry, atr0, direction) ==
    LET atr == IF atr0 <= 0 THEN entry \div 50 ELSE atr0
        sl_dist == (atr_mult_sl * atr) \div 10
        tp1_dist == (atr_mult_tp1 * atr) \div 10
        tp2_dist == (atr_mult_tp2 * atr) \div 10
        tp3_dist == (atr_mult_tp3 * atr) \div 10
        long == Upper(direction) = "LONG"
        stop_loss == IF long THEN entry - sl_dist ELSE entry + sl_dist
        tp1 == IF long THEN entry + tp1_dist ELSE entry - tp1_dist
        tp2 == IF long THEN entry + tp2_dist ELSE entry - tp2_dist
        tp3 == IF long THEN entry + tp3_dist ELSE entry - tp3_dist
        risk == Abs(entry - stop_loss)
        sum == tp1_dist + tp2_dist + tp3_dist
    IN  Plan(stop_loss, tp1, tp2, tp3, sum, risk)

\* position_size_pct(entry, stop_loss, risk_pct = 1.0), in tenths of a percent.
position_size_pct(entry, stop_loss) ==
    LET risk_per_unit == Abs(entry - stop_loss)
    IN  IF risk_per_unit <= 0 THEN 0
        ELSE Min2(1000, Max2(5, RoundHalfEven(entry, 10 * risk_per_unit)))

\* The while loop filling the missing targets: each one is the previous target
\* (entry when there is none) plus or minus 1.0 * atr.
RECURSIVE FillTargets(_, _, _)
FillTargets(tps, entry, step) ==
    IF Len(tps) >= 3 THEN tps
    ELSE LET last_tp == IF Len(tps) > 0 THEN tps[Len(tps)] ELSE entry
         IN  FillTargets(Append(tps, last_tp + step), entry, step)

\* The for loop over the sorted reward-side levels: keeps those at least
\* min_dist away, stops at three.
RECURSIVE PickTargets(_, _, _, _)
PickTargets(sorted, entry, min_dist, tps) ==
    IF sorted = << >> \/ Len(tps) >= 3 THEN tps
    ELSE LET r == Head(sorted)
         IN  PickTargets(Tail(sorted), entry, min_dist,
                         IF Abs(r - entry) >= min_dist THEN Append(tps, r) ELSE tps)

\* dynamic_tps without the min_dist test on the levels.
dynamic_tps_mut(entry, atr0, direction, supports, resistances) ==
    LET atr == IF atr0 <= 0 THEN entry \div 50 ELSE atr0
        long == Upper(direction) = "LONG"
        valid == IF long THEN SortAsc({r \in resistances : r > entry})
                 ELSE SortDesc({s \in supports : s < entry})
    IN  FillTargets(PickTargets(valid, entry, 0, << >>), entry,
                    IF long THEN atr ELSE 0 - atr)

\* tps as lines 138-150 (LONG) and 178-189 (SHORT) leave it, before target 1
\* is adjusted.
dynamic_tps(entry, atr0, direction, supports, resistances) ==
    LET atr == IF atr0 <= 0 THEN entry \div 50 ELSE atr0
        min_dist == (3 * atr) \div 10
        long == Upper(direction) = "LONG"
        valid == IF long THEN SortAsc({r \in resistances : r > entry})
                 ELSE SortDesc({s \in supports : s < entry})
    IN  FillTargets(PickTargets(valid, entry, min_dist, << >>), entry,
                    IF long THEN atr ELSE 0 - atr)

\* dynamic_sl taking the farthest candidate in place of the nearest.
dynamic_sl_mut(entry, atr0, direction, supports, resistances, order_blocks, fvg_zones) ==
    LET atr == IF atr0 <= 0 THEN entry \div 50 ELSE atr0
        max_sl_dist == (15 * atr) \div 10
        min_dist == (3 * atr) \div 10
        buffer == atr \div 10
        long == Upper(direction) = "LONG"
        zones == order_blocks \cup fvg_zones
        sl_all ==
            IF long
            THEN {s \in supports : s < entry}
                 \cup {z.low : z \in {y \in zones : y.type = "bullish" /\ y.low < entry}}
            ELSE {r \in resistances : r > entry}
                 \cup {z.high : z \in {y \in zones : y.type = "bearish" /\ y.high > entry}}
        sl_candidates ==
            {s \in sl_all : min_dist <= Abs(entry - s) /\ Abs(entry - s) <= max_sl_dist}
    IN  IF long
        THEN IF sl_candidates # {} THEN SetMin(sl_candidates) - buffer
             ELSE entry - max_sl_dist
        ELSE IF sl_candidates # {} THEN SetMax(sl_candidates) + buffer
             ELSE entry + max_sl_dist

\* sl as lines 99-136 (LONG) and 152-176 (SHORT) set it.  A zone is
\* [type |-> "bullish" | "bearish", low |-> n, high |-> n].
dynamic_sl(entry, atr0, direction, supports, resistances, order_blocks, fvg_zones) ==
    LET atr == IF atr0 <= 0 THEN entry \div 50 ELSE atr0
        max_sl_dist == (15 * atr) \div 10
        min_dist == (3 * atr) \div 10
        buffer == atr \div 10
        long == Upper(direction) = "LONG"
        zones == order_blocks \cup fvg_zones
        sl_all ==
            IF long
            THEN {s \in supports : s < entry}
                 \cup {z.low : z \in {y \in zones : y.type = "bullish" /\ y.low < entry}}
            ELSE {r \in resistances : r > entry}
                 \cup {z.high : z \in {y \in zones : y.type = "bearish" /\ y.high > entry}}
        sl_candidates ==
            {s \in sl_all : min_dist <= Abs(entry - s) /\ Abs(entry - s) <= max_sl_dist}
    IN  IF long
        THEN IF sl_candidates # {} THEN SetMax(sl_candidates) - buffer
             ELSE entry - max_sl_dist
        ELSE IF sl_candidates # {} THEN SetMin(sl_candidates) + buffer
             ELSE entry + max_sl_dist

\* adjust_tp1 leaving target 1 as selected.
adjust_tp1_mut(entry, direction, tp1, risk) == tp1

\* Lines 195-201: target 1 is moved to 1.5 * risk from the entry when it is
\* nearer than that.
adjust_tp1(entry, direction, tp1, risk) ==
    LET min_reward2 == 3 * risk            \* twice min_reward = 1.5 * risk
    IN  IF 2 * Abs(entry - tp1) < min_reward2
        THEN IF Upper(direction) = "LONG" THEN entry + min_reward2 \div 2
             ELSE entry - min_reward2 \div 2
        ELSE tp1

compute_dynamic_levels(entry, atr0, direction, supports, resistances, order_blocks, fvg_zones) ==
    LET sl == dynamic_sl(entry, atr0, direction, supports, resistances, order_blocks, fvg_zones)
        tps == dynamic_tps(entry, atr0, direction, supports, resistances)
        risk == Abs(entry - sl)
        tp1 == adjust_tp1(entry, direction, tps[1], risk)
        sum == Abs(entry - tp1) + Abs(entry - tps[2]) + Abs(entry - tps[3])
    IN  Plan(sl, tp1, tps[2], tps[3], sum, risk)

----------------------------------------------------------------------------
(* Exceptions.  A call either returns a value (exc = NoExc) or raises the    *)
(* exception class named by exc.  An except clause catches a class when the  *)
(* class or one of its base classes is listed.                               *)

NoExc == "none"

\* The base class of each exception class the pipeline can meet (Python's
\* built-in hierarchy, json.JSONDecodeError, pydantic's ValidationError and
\* the openai client's errors).
ExcParent(e) ==
    CASE e = "JSONDecodeError" -> "ValueError"
      [] e = "ValidationError" -> "ValueError"
      [] e = "KeyError" -> "LookupError"
      [] e = "APITimeoutError" -> "APIConnectionError"
      [] e = "APIConnectionError" -> "APIError"
      [] e = "APIError" -> "OpenAIError"
      [] e = "BaseException" -> "BaseException"
      [] e = "Exception" -> "BaseException"
      [] OTHER -> "Exception"

RECURSIVE IsInstance(_, _)
IsInstance(e, classes) ==
    IF e \in classes THEN TRUE
    ELSE IF e = "BaseException" THEN FALSE
    ELSE IsInstance(ExcParent(e), classes)

----------------------------------------------------------------------------
(* NewsClassifier *)

\* The neutral sentiment both fallback returns build (impact_score 0.5).
NeutralSentiment ==
    [exc |-> NoExc, sentiment |-> "neutral", impact100 |-> 50, regime_change_detected |-> FALSE]

Raised(e) ==
    [exc |-> e, sentiment |-> "neutral", impact100 |-> 0, regime_change_detected |-> FALSE]

SentimentLabel == {"bullish", "bearish", "neutral"}

\* What the body of the try block does with a response of the sentiment call:
\* the exception its first failing statement raises, NoExc when it reaches
\* the return.  resp.kind is
\*   "timeout" / "api_error"  chat.completions.create raises
\*   "empty"                  no choices or empty content: raise ValueError
\*   "not_json"               json.loads raises
\*   "non_dict"               the JSON is a list or a scalar: data.get fails
\*   "null_impact"            impact_score is null: float(None)
\*   "bad_impact"             impact_score is a non-numeric string: float("high")
\*   "ok"                     a JSON object; SentimentLabel(label) may still fail
NewsTryBody(resp) ==
    CASE resp.kind = "timeout" -> "APITimeoutError"
      [] resp.kind = "api_error" -> "APIError"
      [] resp.kind = "empty" -> "ValueError"
      [] resp.kind = "not_json" -> "JSONDecodeError"
      [] resp.kind = "non_dict" -> "AttributeError"
      [] resp.kind = "null_impact" -> "TypeError"
      [] resp.kind = "bad_impact" -> "ValueError"
      [] resp.label \notin SentimentLabel -> "ValueError"
      [] OTHER -> NoExc

\* except (json.JSONDecodeError, KeyError, TypeError): pass
NewsCaught == {"JSONDecodeError", "KeyError", "TypeError"}

classify_batch(has_key, news) ==
    IF news.n_items = 0 THEN NeutralSentiment
    ELSE IF has_key
    THEN LET e == NewsTryBody(news.resp)
         IN  IF e = NoExc
             THEN [exc |-> NoExc, sentiment |-> news.resp.label,
                   impact100 |-> news.resp.impact100,
                   regime_change_detected |-> news.resp.regime]
             ELSE IF IsInstance(e, NewsCaught) THEN NeutralSentiment
             ELSE Raised(e)
    ELSE NeutralSentiment

----------------------------------------------------------------------------
(* AIAnalyzer.  An optional number is the empty set (None) or {value}. *)

Val(opt) == CHOOSE v \in opt : TRUE

AIRaised(e) ==
    [exc |-> e, direction |-> "", confidence_score |-> 0, rule_based |-> FALSE]

\* fallback_analyze adding 10 per pattern to a base of 15 and 25.
fallback_analyze_mut(indicators, patterns) ==
    LET rsi == indicators.rsi
        macd_hist == indicators.macd_histogram
        d1 == IF rsi # {} /\ Val(rsi) > 70 THEN "SHORT" ELSE "LONG"
        direction == IF macd_hist # {} /\ ~(Val(macd_hist) > 0) /\ d1 = "LONG"
                     THEN "SHORT" ELSE d1
        c1 == IF rsi # {} /\ (Val(rsi) < 35 \/ Val(rsi) > 65) THEN 2500 ELSE 1500
        confidence == IF Len(patterns) > 0
                      THEN Min2(7500, c1 + 1000 * Len(patterns)) ELSE c1
    IN  [exc |-> NoExc, direction |-> direction, confidence_score |-> confidence,
         rule_based |-> TRUE]

\* indicators carries rsi and macd_histogram (optional integers); patterns
\* is the list of detected patterns, of which only the length matters here.
fallback_analyze(indicators, patterns) ==
    LET rsi == indicators.rsi
        macd_hist == indicators.macd_histogram
        d1 == IF rsi # {} /\ Val(rsi) > 70 THEN "SHORT" ELSE "LONG"
        direction == IF macd_hist # {} /\ ~(Val(macd_hist) > 0) /\ d1 = "LONG"
                     THEN "SHORT" ELSE d1
        c1 == IF rsi # {} /\ (Val(rsi) < 35 \/ Val(rsi) > 65) THEN 5500 ELSE 4500
        confidence == IF Len(patterns) > 0
                      THEN Min2(7500, c1 + 1000 * Len(patterns)) ELSE c1
    IN  [exc |-> NoExc, direction |-> direction, confidence_score |-> confidence,
         rule_based |-> TRUE]

\* The exception the first failing statement of the try block raises, NoExc
\* when the block reaches its return.  resp.kind is
\*   "timeout" / "api_error"  chat.completions.create raises
\*   "not_json"               json.loads raises
\*   "non_dict"               data.get on a list or scalar
\*   "conf_null"              confidence_score is null: float(None)
\*   "conf_text"              confidence_score is a non-numeric string
\*   "ok"                     a JSON object with a numeric confidence_score;
\*                            AIAnalysisResult validates 0 <= score <= 100
LlmTryBody(resp) ==
    CASE resp.kind = "timeout" -> "APITimeoutError"
      [] resp.kind = "api_error" -> "APIError"
      [] resp.kind = "not_json" -> "JSONDecodeError"
      [] resp.kind = "non_dict" -> "AttributeError"
      [] resp.kind = "conf_null" -> "TypeError"
      [] resp.kind = "conf_text" -> "ValueError"
      [] resp.confidence < 0 \/ resp.confidence > 10000 -> "ValidationError"
      [] OTHER -> NoExc

\* except (json.JSONDecodeError, KeyError, TypeError)
LlmCaught == {"JSONDecodeError", "KeyError", "TypeError"}

llm_analyze(resp, indicators, patterns) ==
    IF resp.kind = "empty" THEN fallback_analyze(indicators, patterns)
    ELSE LET e == LlmTryBody(resp)
         IN  IF e = NoExc
             THEN [exc |-> NoExc,
                   direction |-> IF resp.direction = "NEUTRAL" THEN "LONG" ELSE resp.direction,
                   confidence_score |-> resp.confidence, rule_based |-> FALSE]
             ELSE IF IsInstance(e, LlmCaught) THEN fallback_analyze(indicators, patterns)
             ELSE AIRaised(e)

analyze(has_key, resp, indicators, patterns) ==
    IF has_key THEN llm_analyze(resp, indicators, patterns)
    ELSE fallback_analyze(indicators, patterns)

----------------------------------------------------------------------------
(* MLPredictor.  ml = [loaded, n_features_in, raises, pred_class, proba]:    *)
(* whether model and scaler are loaded, the length the scaler was fitted on, *)
(* the exception the scaler or the model raises when called (NoExc when they *)
(* run through), the predicted class and the largest class probability in    *)
(* units of 0.0001.                                                          *)

\* len(FeatureBuilder.INDICATOR_COLS)
INDICATOR_COLS == 13

\* FeatureBuilder._n_features_static
n_features_static == INDICATOR_COLS + 3 + 2

\* The length of the vector build_from_df returns: the zero vector for fewer
\* than 2 rows, else one value per indicator column, 3 returns, 2 counts.
build_from_df_len(nbars) ==
    IF nbars < 2 THEN n_features_static ELSE INDICATOR_COLS + 3 + 2

NoPrediction == [exc |-> NoExc, direction |-> "None", confidence |-> 0]

PredictRaised(e) == [exc |-> e, direction |-> "None", confidence |-> 0]

\* The body of the try statement of predict.
PredictTryBody(ml, nbars) ==
    IF build_from_df_len(nbars) # ml.n_features_in THEN NoPrediction
    ELSE IF ml.raises # NoExc THEN PredictRaised(ml.raises)
    ELSE [exc |-> NoExc,
          direction |-> IF ml.pred_class = 1 THEN "LONG" ELSE "SHORT",
          confidence |-> 10 * RoundHalfEven(ml.proba, 10)]

\* predict without its try/except.
predict_mut(ml, nbars) ==
    IF ~ml.loaded THEN NoPrediction
    ELSE IF nbars < 2 THEN NoPrediction
    ELSE PredictTryBody(ml, nbars)

predict(ml, nbars) ==
    IF ~ml.loaded THEN NoPrediction
    ELSE IF nbars < 2 THEN NoPrediction
    ELSE LET r == PredictTryBody(ml, nbars)
         IN  IF r.exc # NoExc /\ IsInstance(r.exc, {"Exception"}) THEN NoPrediction ELSE r

----------------------------------------------------------------------------
(* SignalGenerator.generate *)

\* AI_WEIGHT = 0.6 and ML_WEIGHT = 0.4, in tenths.
AI_WEIGHT == 6
ML_WEIGHT == 4

\* The confidence threshold of generate (25) and the penalty applied when the
\* predictor disagrees (15), in hundredths of a point.
MinConfidence == 2500
DisagreePenalty == 1500

\* Bars generate needs (50) and the lookback of compute_support_resistance (100).
MinBars == 50
SRLookback == 100

Range(seq) == {seq[i] : i \in 1..Len(seq)}

\* A pattern is [pattern_type |-> string, metadata |-> {} or {[low, high]}].
ZonesOf(patterns, bull, bear) ==
    {[type |-> "bullish", low |-> Val(p.metadata).low, high |-> Val(p.metadata).high] :
        p \in {q \in Range(patterns) : q.pattern_type = bull /\ q.metadata # {}}}
    \cup
    {[type |-> "bearish", low |-> Val(p.metadata).low, high |-> Val(p.metadata).high] :
        p \in {q \in Range(patterns) : q.pattern_type = bear /\ q.metadata # {}}}

\* DisagreeConfidence without the floor of 25.
DisagreeConfidence_mut(confidence) == confidence - DisagreePenalty

\* max(25, confidence - 15): the confidence when the predictor disagrees.
DisagreeConfidence(confidence) == Max2(MinConfidence, confidence - DisagreePenalty)

\* BlendConfidence with the two weights exchanged.
BlendConfidence_mut(direction, confidence, ml_loaded, ml) ==
    IF ml_loaded /\ ml.direction # "None"
    THEN IF ml.direction = direction
         THEN Min2(10000, 10 * RoundHalfEven(ML_WEIGHT * confidence + AI_WEIGHT * ml.confidence, 100))
         ELSE Min2(10000, 10 * RoundHalfEven(DisagreeConfidence(confidence), 10))
    ELSE confidence

\* confidence after step 6b: the blend with the predictor, rounded to one
\* decimal and capped at 100, when the predictor is loaded and predicts;
\* the reasoning confidence otherwise.
BlendConfidence(direction, confidence, ml_loaded, ml) ==
    IF ml_loaded /\ ml.direction # "None"
    THEN IF ml.direction = direction
         THEN Min2(10000, 10 * RoundHalfEven(AI_WEIGHT * confidence + ML_WEIGHT * ml.confidence, 100))
         ELSE Min2(10000, 10 * RoundHalfEven(DisagreeConfidence(confidence), 10))
    ELSE confidence

\* Discard letting an entry of exactly 0 through.
Discard_mut(confidence, entry) == confidence < MinConfidence \/ entry < 0

\* The two early returns before step 7: confidence below 25, or no valid entry
\* (not entry or entry <= 0).
Discard(confidence, entry) == confidence < MinConfidence \/ entry <= 0

NoSignal ==
    [asset |-> << >>, timeframe |-> "", direction |-> "", entry_price |-> 0,
     stop_loss |-> 0, take_profit_1 |-> 0, take_profit_2 |-> 0, take_profit_3 |-> 0,
     position_size_pct |-> 0, risk_reward |-> 0, confidence_score |-> 0,
     confirmation |-> << >>]

NoAIResult == [exc |-> NoExc, direction |-> "", confidence_score |-> 0, rule_based |-> FALSE]

\* The outcome of one call: kind is "none" (returned None), "raised" (an
\* exception left the call) or "signal"; sentiment, ai_result and ml are the
\* intermediate values of steps 5, 6 and 6b as far as the call got.
Outcome(kind, exc, sig, sentiment, ai_result, ml) ==
    [kind |-> kind, exc |-> exc, sig |-> sig, sentiment |-> sentiment,
     ai_result |-> ai_result, ml |-> ml]

\* Step 7 and the return: the plan of the chosen direction out of the two
\* scenarios, compute_levels for any other direction string.
Finalize(asset, timeframe, direction, confidence, entry, atr, scenarios) ==
    LET plan == IF direction \in DOMAIN scenarios THEN scenarios[direction]
                ELSE compute_levels(entry, atr, direction)
    IN  [asset |-> asset, timeframe |-> timeframe, direction |-> direction,
         entry_price |-> entry, stop_loss |-> plan.sl,
         take_profit_1 |-> plan.tp1, take_profit_2 |-> plan.tp2, take_profit_3 |-> plan.tp3,
         position_size_pct |-> position_size_pct(entry, plan.sl),
         risk_reward |-> RoundHalfEven(100 * plan.rr.rr_num, plan.rr.rr_den),
         confidence_score |-> confidence,
         confirmation |-> << >>]

generate(asset, timeframe, use_news, in) ==
    IF in.nbars < MinBars
    THEN Outcome("none", NoExc, NoSignal, NeutralSentiment, NoAIResult, NoPrediction)
    ELSE
    LET close == in.close
        atr == IF in.atr = {} \/ Val(in.atr) = 0 THEN close \div 50 ELSE Val(in.atr)
        supports == IF in.nbars < SRLookback THEN {} ELSE in.supports
        resistances == IF in.nbars < SRLookback THEN {} ELSE in.resistances
        sentiment == IF use_news THEN classify_batch(in.has_key, in.news) ELSE NeutralSentiment
        order_blocks == ZonesOf(in.patterns, "order_block_bullish", "order_block_bearish")
        fvg_zones == ZonesOf(in.patterns, "fvg_bullish", "fvg_bearish")
        scenarios ==
            [d \in {"LONG", "SHORT"} |->
                compute_dynamic_levels(close, atr, d, supports, resistances,
                                       order_blocks, fvg_zones)]
        ai_result == analyze(in.has_key, in.ai, in.indicators, in.patterns)
        direction == IF ai_result.direction = "NEUTRAL" THEN "LONG" ELSE ai_result.direction
        ml == predict(in.ml, in.nbars)
        confidence == BlendConfidence(direction, ai_result.confidence_score, in.ml.loaded, ml)
    IN  IF sentiment.exc # NoExc
        THEN Outcome("raised", sentiment.exc, NoSignal, sentiment, NoAIResult, NoPrediction)
        ELSE IF ai_result.exc # NoExc
        THEN Outcome("raised", ai_result.exc, NoSignal, sentiment, ai_result, NoPrediction)
        ELSE IF ml.exc # NoExc
        THEN Outcome("raised", ml.exc, NoSignal, sentiment, ai_result, ml)
        ELSE IF Discard(confidence, close)
        THEN Outcome("none", NoExc, NoSignal, sentiment, ai_result, ml)
        ELSE Outcome("signal", NoExc,
                     Finalize(asset, timeframe, direction, confidence, close, atr, scenarios),
                     sentiment, ai_result, ml)

----------------------------------------------------------------------------
(* Evidence fed to generate.  The market data, the responses of the external *)
(* services and the predictor's state are the inputs of a call.              *)

\* Largest number of levels per side the risk inputs carry.
MaxLevels == 2

EntryPrice == 50 * 20

\* Levels around the entry: inside, on the edge of and outside the stop band
\* [0.3, 1.5] x ATR for ATR = 20 and ATR = 40, on both sides.
Levels == {EntryPrice + o : o \in {0 - 30, 0 - 16, 0 - 6, 0 - 4, 4, 6, 10, 30}}

LevelSets == {S \in SUBSET Levels : Cardinality(S) <= MaxLevels}

NoNews == [n_items |-> 0,
           resp |-> [kind |-> "ok", label |-> "neutral", impact100 |-> 50, regime |-> FALSE]]

AIOk(direction, confidence) ==
    [kind |-> "ok", direction |-> direction, confidence |-> confidence]

AIFail(kind) == [kind |-> kind, direction |-> "", confidence |-> 0]

MLNotLoaded ==
    [loaded |-> FALSE, n_features_in |-> 0, raises |-> NoExc, pred_class |-> 0, proba |-> 0]

\* A loaded predictor whose scaler was fitted on n features and whose calls
\* raise e (NoExc: they return class c with largest probability p).
MLLoaded(n, e, c, p) ==
    [loaded |-> TRUE, n_features_in |-> n, raises |-> e, pred_class |-> c, proba |-> p]

BaseInput ==
    [asset |-> << "BTC/USDT" >>, timeframe |-> "1h", use_news |-> TRUE,
     nbars |-> 200, close |-> EntryPrice, atr |-> {20},
     supports |-> {}, resistances |-> {},
     indicators |-> [rsi |-> {50}, macd_histogram |-> {1}],
     patterns |-> << >>,
     has_key |-> TRUE, news |-> NoNews, ai |-> AIOk("LONG", 7000), ml |-> MLNotLoaded]

\* A PatternResult with no level and no metadata.
Pattern(t) == [pattern_type |-> t, metadata |-> {}, level_or_price |-> {}]

\* A PatternResult whose level_or_price is the fraction num / den of ticks.
PatternAt(t, num, den) ==
    [Pattern(t) EXCEPT !.level_or_price = {[num |-> num, den |-> den]}]

\* Direction strings a reasoning response can carry.
AIDirections == {"LONG", "SHORT", "NEUTRAL", "BUY"}

\* Reasoning confidences: around the threshold 25, around 25 + 15, with more
\* than one decimal (70.33), the ends of the range and out of range.
AIConfidences == {0, 2400, 2500, 3900, 7000, 7033, 10000, 15000}

AIFailKinds == {"timeout", "api_error", "empty", "not_json", "non_dict", "conf_null", "conf_text"}

AIResponses ==
    {AIOk(d, c) : d \in AIDirections, c \in AIConfidences} \cup {AIFail(k) : k \in AIFailKinds}

MLStates ==
    {MLNotLoaded, MLLoaded(n_features_static, "ValueError", 0, 0)}
    \cup {MLLoaded(n_features_static, NoExc, c, p) : c \in {0, 1}, p \in {5000, 8000, 8889}}

NewsResponses ==
    {[kind |-> k, label |-> "neutral", impact100 |-> 50, regime |-> FALSE] :
        k \in {"timeout", "api_error", "empty", "not_json", "non_dict", "null_impact", "bad_impact"}}
    \cup {[kind |-> "ok", label |-> l, impact100 |-> 80, regime |-> TRUE] :
            l \in {"bullish", "bearish", "neutral", "positive"}}

NewsStates == {NoNews} \cup {[n_items |-> 3, resp |-> r] : r \in NewsResponses}

\* Market data against both directions: every choice of levels and ATR
\* (a missing ATR is the empty set).
RiskInputs ==
    {[BaseInput EXCEPT !.atr = a, !.supports = s, !.resistances = r,
                       !.ai = AIOk(d, 7000)] :
        a \in {{}, {20}, {40}}, s \in LevelSets, r \in LevelSets, d \in {"LONG", "SHORT", "BUY"}}

\* Reasoning and predictor outcomes against each other, with and without a
\* valid latest close and enough bars.
BlendInputs ==
    {[BaseInput EXCEPT !.close = c, !.nbars = n, !.ai = ai, !.ml = ml] :
        c \in {0, EntryPrice}, n \in {49, 60, 200},
        ai \in {AIOk(d, k) : d \in AIDirections, k \in AIConfidences}, ml \in MLStates}

\* Every reasoning response against the indicators the fallback reads.
ReasoningInputs ==
    {[BaseInput EXCEPT !.has_key = h, !.ai = ai,
                       !.indicators = [rsi |-> rsi, macd_histogram |-> m],
                       !.patterns = p] :
        h \in BOOLEAN, ai \in AIResponses,
        rsi \in {{}, {25}, {30}, {35}, {50}, {65}, {70}, {80}}, m \in {{}, {0 - 1}, {0}, {1}},
        p \in {<< >>, << Pattern("range") >>, << Pattern("range"), Pattern("trendline_up"),
                                                Pattern("channel_up"), Pattern("breakout_up") >>}}

\* Every state of the news evidence, with news on and off.
NewsInputs ==
    {[BaseInput EXCEPT !.use_news = u, !.has_key = h, !.news = n] :
        u \in BOOLEAN, h \in BOOLEAN, n \in NewsStates}

GenerateInputs == RiskInputs \cup BlendInputs \cup ReasoningInputs \cup NewsInputs

Pending == Outcome("pending", NoExc, NoSignal, NeutralSentiment, NoAIResult, NoPrediction)

----------------------------------------------------------------------------
(* SpecGen: one call of generate on every evidence. *)

\* No request is in progress and no component is being called on its own.
IdleApi == db = << >> /\ req = << >>

IdleFn == fn_in = "" /\ fn_out = ""

IdleAll ==
    /\ IdleApi
    /\ IdleFn
    /\ supported_assets = << >>
    /\ timeframes = << >>
    /\ exclude_assets = {}
    /\ pc = "off"
    /\ asset_i = 0
    /\ tf_i = 0
    /\ asset_signals = << >>
    /\ final_signals = << >>
    /\ evals = << >>
    /\ last_outcome = ""

InitGen ==
    /\ gen_in \in GenerateInputs
    /\ gen_out = Pending
    /\ IdleAll

GenerateCall ==
    /\ gen_out.kind = "pending"
    /\ gen_out' = generate(gen_in.asset, gen_in.timeframe, gen_in.use_news, gen_in)
    /\ UNCHANGED << gen_in, allVars, apiVars, fnVars >>

NextGen == GenerateCall

SpecGen == InitGen /\ [][NextGen]_vars

----------------------------------------------------------------------------
(* SignalGenerator.generate_all *)

\* An asset name is the sequence of its parts, the separator ":" a part of
\* its own: "BTC/USDT:USDT" is << "BTC/USDT", ":", "USDT" >>.
\* a.split(":")[0]: the parts before the first ":".
RECURSIVE SplitColon0(_)
SplitColon0(name) ==
    IF name = << >> \/ Head(name) = ":" THEN << >>
    ELSE << Head(name) >> \o SplitColon0(Tail(name))

\* clean_exclusions = {a.split(":")[0] for a in exclude_assets}
CleanExclusions(excl) == {SplitColon0(a) : a \in excl}

\* IsExcluded comparing the asset as configured, without normalising it.
IsExcluded_mut(asset, excl) == asset \in CleanExclusions(excl)

\* if clean_asset in clean_exclusions
IsExcluded(asset, excl) == SplitColon0(asset) \in CleanExclusions(excl)

\* Timeframes that must agree (len(longs) >= 3, len(shorts) >= 3).
MinConfirmations == 3

\* [s for s in asset_signals if s.direction == d]
OfDirection(signals, d) == SelectSeq(signals, LAMBDA x : x.direction = d)

\* ConsensusSignals handing over the group latest timeframe first.
ConsensusSignals_mut(signals) ==
    LET longs == OfDirection(signals, "LONG")
        shorts == OfDirection(signals, "SHORT")
        group == IF Len(longs) >= MinConfirmations THEN longs
                 ELSE IF Len(shorts) >= MinConfirmations THEN shorts
                 ELSE << >>
    IN  [i \in 1..Len(group) |-> group[Len(group) + 1 - i]]

\* Step 3: longs when there are at least 3 of them, else shorts when there
\* are at least 3 of them, else nothing.
ConsensusSignals(signals) ==
    LET longs == OfDirection(signals, "LONG")
        shorts == OfDirection(signals, "SHORT")
    IN  IF Len(longs) >= MinConfirmations THEN longs
        ELSE IF Len(shorts) >= MinConfirmations THEN shorts
        ELSE << >>

\* BestSignal taking the first signal of the group whatever its confidence.
BestSignal_mut(signals) == signals[1]

\* max(consensus_signals, key=confidence_score): the first signal of the list
\* holding the largest confidence.
BestSignal(signals) ==
    LET top == SetMax({signals[i].confidence_score : i \in 1..Len(signals)})
        first == SetMin({i \in 1..Len(signals) : signals[i].confidence_score = top})
    IN  signals[first]

\* Step 4: the best signal with the confirmation note added to its summary.
\* Promote with a note that names the timeframe of the best signal only.
Promote_mut(consensus) ==
    LET best == BestSignal(consensus)
        note == [count |-> Len(consensus), tfs |-> << best.timeframe >>]
    IN  [best EXCEPT !.confirmation = Append(@, note)]

Promote(consensus) ==
    LET best == BestSignal(consensus)
        note == [count |-> Len(consensus),
                 tfs |-> [i \in 1..Len(consensus) |-> consensus[i].timeframe]]
    IN  [best EXCEPT !.confirmation = Append(@, note)]

\* The default of Settings.supported_timeframes.
DefaultTimeframes == << "1h", "2h", "4h", "1d" >>

BTC == << "BTC/USDT" >>
BTCFutures == << "BTC/USDT", ":", "USDT" >>
ETH == << "ETH/USDT" >>

\* Contents of supported_assets.txt: one asset, two assets, the same asset
\* under both spellings, and a line repeated.
AssetLists == {<< ETH >>, << BTC, ETH >>, << BTCFutures, ETH >>, << BTC, BTCFutures >>, << ETH, ETH >>}

\* exclude_assets as /generate builds it from the active signals.
ExcludeLists == {{}, {BTC}, {BTCFutures}, {ETH, BTC}}

\* What one (asset, timeframe) evaluation can meet inside a run: candidates
\* of either direction at two confidences, a direction string that is
\* neither, a confidence below the threshold and a failing reasoning call.
RunInputs ==
    {[BaseInput EXCEPT !.ai = ai] :
        ai \in {AIOk("LONG", 6000), AIOk("LONG", 8000), AIOk("SHORT", 6000),
                AIOk("BUY", 6000), AIOk("LONG", 2000), AIFail("timeout")}}

IdleGen == gen_in = BaseInput /\ gen_out = Pending

Init ==
    /\ IdleGen
    /\ IdleApi
    /\ IdleFn
    /\ supported_assets \in AssetLists
    /\ timeframes = DefaultTimeframes
    /\ exclude_assets = {}
    /\ pc = "idle"
    /\ asset_i = 0
    /\ tf_i = 0
    /\ asset_signals = << >>
    /\ final_signals = << >>
    /\ evals = [p \in (1..Len(supported_assets)) \X (1..Len(timeframes)) |-> 0]
    /\ last_outcome = ""

\* generate_all(use_news=True, exclude_assets=excl) is entered.
Call ==
    /\ pc = "idle"
    /\ \E excl \in ExcludeLists : exclude_assets' = excl
    /\ pc' = "asset"
    /\ asset_i' = 1
    /\ UNCHANGED << apiVars, fnVars, genVars, supported_assets, timeframes, tf_i, asset_signals,
                    final_signals, evals, last_outcome >>

\* for asset in supported_assets: the asset is excluded, continue.
SkipAsset ==
    /\ pc = "asset"
    /\ asset_i <= Len(supported_assets)
    /\ IsExcluded(supported_assets[asset_i], exclude_assets)
    /\ asset_i' = asset_i + 1
    /\ UNCHANGED << apiVars, fnVars, genVars, supported_assets, timeframes, exclude_assets, pc, tf_i,
                    asset_signals, final_signals, evals, last_outcome >>

\* The asset is not excluded: asset_signals = [] and the timeframe loop starts.
BeginAsset ==
    /\ pc = "asset"
    /\ asset_i <= Len(supported_assets)
    /\ ~IsExcluded(supported_assets[asset_i], exclude_assets)
    /\ asset_signals' = << >>
    /\ tf_i' = 1
    /\ pc' = "tf"
    /\ last_outcome' = ""
    /\ UNCHANGED << apiVars, fnVars, genVars, supported_assets, timeframes, exclude_assets, asset_i,
                    final_signals, evals >>

\* One pass of the timeframe loop: self.generate(asset, tf), inside try.
Evaluated(in) ==
    generate(supported_assets[asset_i], timeframes[tf_i], TRUE, in)

Counted == [evals EXCEPT ![<< asset_i, tf_i >>] = @ + 1]

\* generate returned a signal: it is appended.
EvalSignal ==
    /\ pc = "tf"
    /\ tf_i <= Len(timeframes)
    /\ \E in \in RunInputs :
         /\ Evaluated(in).kind = "signal"
         /\ asset_signals' = Append(asset_signals, Evaluated(in).sig)
    /\ tf_i' = tf_i + 1
    /\ evals' = Counted
    /\ last_outcome' = "signal"
    /\ UNCHANGED << apiVars, fnVars, genVars, supported_assets, timeframes, exclude_assets, pc, asset_i,
                    final_signals >>

\* generate returned None: nothing is appended.
EvalNone ==
    /\ pc = "tf"
    /\ tf_i <= Len(timeframes)
    /\ \E in \in RunInputs : Evaluated(in).kind = "none"
    /\ tf_i' = tf_i + 1
    /\ evals' = Counted
    /\ last_outcome' = "none"
    /\ UNCHANGED << apiVars, fnVars, genVars, supported_assets, timeframes, exclude_assets, pc, asset_i,
                    asset_signals, final_signals >>

\* OnException without the try/except around generate.
OnException_mut(exc) == "aborted"

\* generate raised: except Exception prints and continues; anything that is
\* not an Exception leaves generate_all.
OnException(exc) == IF IsInstance(exc, {"Exception"}) THEN "tf" ELSE "aborted"

EvalRaised ==
    /\ pc = "tf"
    /\ tf_i <= Len(timeframes)
    /\ \E in \in RunInputs :
         /\ Evaluated(in).kind = "raised"
         /\ pc' = OnException(Evaluated(in).exc)
    /\ tf_i' = tf_i + 1
    /\ evals' = Counted
    /\ last_outcome' = "raised"
    /\ UNCHANGED << apiVars, fnVars, genVars, supported_assets, timeframes, exclude_assets, asset_i,
                    asset_signals, final_signals >>

\* After the timeframe loop: steps 2 to 4 and the append to final_signals.
Aggregate ==
    /\ pc = "tf"
    /\ tf_i > Len(timeframes)
    /\ final_signals' =
         IF asset_signals = << >> \/ ConsensusSignals(asset_signals) = << >>
         THEN final_signals
         ELSE Append(final_signals, Promote(ConsensusSignals(asset_signals)))
    /\ asset_i' = asset_i + 1
    /\ pc' = "asset"
    /\ UNCHANGED << apiVars, fnVars, genVars, supported_assets, timeframes, exclude_assets, tf_i,
                    asset_signals, evals, last_outcome >>

\* return final_signals
Return ==
    /\ pc = "asset"
    /\ asset_i > Len(supported_assets)
    /\ pc' = "done"
    /\ UNCHANGED << apiVars, fnVars, genVars, supported_assets, timeframes, exclude_assets, asset_i, tf_i,
                    asset_signals, final_signals, evals, last_outcome >>

Next ==
    \/ Call
    \/ SkipAsset
    \/ BeginAsset
    \/ EvalSignal
    \/ EvalNone
    \/ EvalRaised
    \/ Aggregate
    \/ Return

Spec == Init /\ [][Next]_vars

----------------------------------------------------------------------------
(* Properties of generate (checked under SpecGen) *)

Returned == gen_out.kind = "signal"

Sig == gen_out.sig

\* C1: every signal generate returns has its stop, entry and three targets in
\* the risk-plan order: LONG stop_loss < entry_price < take_profit_1 <
\* take_profit_2 < take_profit_3, SHORT the mirror image.  The code checks no
\* ordering and returns plans whose widened target 1 lies beyond target 2.
C1_RiskPlanOrdering ==
    Returned =>
        /\ Sig.direction = "LONG" =>
             /\ Sig.stop_loss < Sig.entry_price
             /\ Sig.entry_price < Sig.take_profit_1
             /\ Sig.take_profit_1 < Sig.take_profit_2
             /\ Sig.take_profit_2 < Sig.take_profit_3
        /\ Sig.direction = "SHORT" =>
             /\ Sig.stop_loss > Sig.entry_price
             /\ Sig.entry_price > Sig.take_profit_1
             /\ Sig.take_profit_1 > Sig.take_profit_2
             /\ Sig.take_profit_2 > Sig.take_profit_3

\* C2: every signal generate returns has risk_reward >= 1.5.  The code never
\* compares risk_reward with 1.5 and returns plans below it.
C2_MinRiskReward == Returned => Sig.risk_reward >= 150

\* The direction the blend compares the predictor with: the reasoning
\* direction, NEUTRAL counted as LONG.
ReasoningDirection ==
    IF gen_out.ai_result.direction = "NEUTRAL" THEN "LONG" ELSE gen_out.ai_result.direction

Predicted == gen_in.ml.loaded /\ gen_out.ml.direction # "None"

Agrees == Predicted /\ gen_out.ml.direction = ReasoningDirection

Disagrees == Predicted /\ gen_out.ml.direction # ReasoningDirection

\* Ten times 0.6 x reasoning + 0.4 x predictor, in hundredths of a point.
Weighted10 == 6 * gen_out.ai_result.confidence_score + 4 * gen_out.ml.confidence

Penalised == Max2(2500, gen_out.ai_result.confidence_score - 1500)

\* C4 as stated: the confidence of a returned signal is exactly
\* 0.6 x reasoning + 0.4 x predictor when the predictor agrees, exactly
\* max(25, reasoning - 15) when it disagrees, and the reasoning confidence
\* when there is no prediction.
C4_BlendExact ==
    Returned =>
        /\ Agrees => 10 * Sig.confidence_score = Weighted10
        /\ Disagrees => Sig.confidence_score = Penalised
        /\ ~Predicted => Sig.confidence_score = gen_out.ai_result.confidence_score

\* C4 as amended: with a prediction the blended value is rounded to one
\* decimal place (a multiple of 0.1 within 0.05 of the stated value); with no
\* prediction the reasoning confidence is unchanged.
C4_BlendRounded ==
    Returned =>
        /\ Agrees =>
             /\ Sig.confidence_score % 10 = 0
             /\ Abs(10 * Sig.confidence_score - Weighted10) <= 50
        /\ Disagrees =>
             /\ Sig.confidence_score % 10 = 0
             /\ Abs(Sig.confidence_score - Penalised) <= 5
        /\ ~Predicted => Sig.confidence_score = gen_out.ai_result.confidence_score

\* Reasoning 70 and an agreeing predictor at 80 gave 74.
C4_Witness ==
    /\ Returned
    /\ Agrees
    /\ gen_out.ai_result.confidence_score = 7000
    /\ gen_out.ml.confidence = 8000
    /\ Sig.confidence_score = 7400

\* C5: a returned signal has 25 <= confidence_score <= 100 and entry_price > 0;
\* a call whose latest close is not positive, or whose confidence without a
\* prediction is below 25, returns no signal.
C5_Thresholds ==
    /\ Returned =>
         /\ Sig.confidence_score >= 2500
         /\ Sig.confidence_score <= 10000
         /\ Sig.entry_price > 0
    /\ gen_in.close <= 0 => ~Returned
    /\ (~Predicted /\ gen_out.ai_result.confidence_score < 2500) => ~Returned

\* A signal exactly at the threshold was returned.
C5_Witness ==
    /\ Returned
    /\ Sig.confidence_score = 2500
    /\ gen_out.ai_result.confidence_score = 2500

\* The call got as far as the reasoning step (enough bars, news did not raise).
ReachedReasoning ==
    /\ gen_out.kind # "pending"
    /\ gen_in.nbars >= MinBars
    /\ gen_out.sentiment.exc = NoExc

ReasoningUnavailable ==
    \/ ~gen_in.has_key
    \/ gen_in.ai.kind # "ok"
    \/ gen_in.ai.confidence < 0
    \/ gen_in.ai.confidence > 10000

\* C7: analyze never raises, and whenever the reasoning service is
\* unavailable its result is the rule-based fallback on the same indicators
\* and patterns.  The code lets API errors, timeouts, ValueError,
\* AttributeError and validation errors leave analyze.
C7_AlwaysJudgment ==
    ReachedReasoning =>
        /\ gen_out.ai_result.exc = NoExc
        /\ ReasoningUnavailable =>
             gen_out.ai_result = fallback_analyze(gen_in.indicators, gen_in.patterns)

NewsUnavailable ==
    \/ gen_in.news.n_items = 0
    \/ ~gen_in.has_key
    \/ gen_in.news.resp.kind # "ok"
    \/ gen_in.news.resp.label \notin {"bullish", "bearish", "neutral"}

\* C8: with use_news enabled classify_batch never raises, so the news step
\* never ends the call, and it returns the neutral sentiment (impact 0.5, no
\* regime change) whenever the news evidence is unavailable.  The code lets
\* API errors, the ValueError of an empty response and of an unknown label
\* leave classify_batch.
C8_NewsNeverRaises ==
    (gen_out.kind # "pending" /\ gen_in.use_news /\ gen_in.nbars >= MinBars) =>
        /\ gen_out.sentiment.exc = NoExc
        /\ NewsUnavailable => gen_out.sentiment = NeutralSentiment

----------------------------------------------------------------------------
(* Properties of generate_all (checked under Spec) *)

Indices(seq) == 1..Len(seq)

CountOf(signals, d) == Cardinality({i \in Indices(signals) : signals[i].direction = d})

\* The step that leaves the timeframe loop of an asset and aggregates.
AggregateStep == pc = "tf" /\ pc' = "asset"

Promoted == final_signals'[Len(final_signals')]

\* C3: when the candidates of an asset are aggregated, if at least 3 of them
\* are LONG (or at least 3 are SHORT) exactly one signal is added for the
\* asset: a candidate of that direction whose confidence is the largest of
\* that group; if neither direction has 3 candidates nothing is added.
C3_Consensus ==
    [][AggregateStep =>
        /\ \A d \in {"LONG", "SHORT"} :
             CountOf(asset_signals, d) >= 3 =>
                /\ Len(final_signals') = Len(final_signals) + 1
                /\ SubSeq(final_signals', 1, Len(final_signals)) = final_signals
                /\ Promoted.direction = d
                /\ \E i \in Indices(asset_signals) :
                     Promoted = [asset_signals[i] EXCEPT !.confirmation = Promoted.confirmation]
                /\ \A i \in Indices(asset_signals) :
                     asset_signals[i].direction = d =>
                        asset_signals[i].confidence_score <= Promoted.confidence_score
        /\ (\A d \in {"LONG", "SHORT"} : CountOf(asset_signals, d) < 3) =>
             final_signals' = final_signals
      ]_vars

\* Three LONG candidates and one SHORT were aggregated, the best LONG one was
\* not the first, and it was promoted.
C3_Witness ==
    /\ pc = "asset"
    /\ asset_i > 1
    /\ Len(asset_signals) = 4
    /\ CountOf(asset_signals, "LONG") = 3
    /\ CountOf(asset_signals, "SHORT") = 1
    /\ asset_signals[1].asset = supported_assets[asset_i - 1]
    /\ asset_signals[1].confidence_score = 6000
    /\ final_signals # << >>
    /\ final_signals[Len(final_signals)].asset = supported_assets[asset_i - 1]
    /\ final_signals[Len(final_signals)].direction = "LONG"
    /\ final_signals[Len(final_signals)].confidence_score = 8000

\* A step whose generate call raised.
RaisedStep == tf_i' = tf_i + 1 /\ last_outcome' = "raised"

\* The asset at index a is matched by the exclusion list: its name without
\* the ":" suffix is the name of an entry without its ":" suffix.
Matched(a) ==
    \E e \in exclude_assets : SplitColon0(e) = SplitColon0(supported_assets[a])

\* Steps generate_all still has to take: it falls with every step, so a run
\* cannot go on for ever.
StepsLeft ==
    LET n == Len(supported_assets)
        k == Len(timeframes) + 3
    IN  CASE pc = "idle" -> (n + 1) * k + 2
          [] pc = "asset" -> (n + 1 - asset_i) * k + 1
          [] pc = "tf" -> (n + 1 - asset_i) * k - tf_i
          [] OTHER -> 0

\* C6: a generate call that raises is skipped like one that returned nothing
\* (the loop moves to the next timeframe with asset_signals and final_signals
\* untouched); the run never ends on the exception (pc is never "aborted")
\* and every step brings its return closer; at its end every pair of a
\* non-excluded asset and a timeframe has been evaluated exactly once.
C6_FailureIsolated ==
    /\ [][RaisedStep =>
            /\ pc' = "tf"
            /\ asset_signals' = asset_signals
            /\ final_signals' = final_signals
            /\ asset_i' = asset_i]_vars
    /\ [][StepsLeft' < StepsLeft]_vars
    /\ [](pc \in {"idle", "asset", "tf", "done"})
    /\ [](pc = "done" =>
            \A a \in Indices(supported_assets), t \in Indices(timeframes) :
                ~Matched(a) => evals[<< a, t >>] = 1)

\* A run ended in which a call raised and a signal was still returned.
C6_Witness ==
    /\ pc = "done"
    /\ last_outcome = "raised"
    /\ final_signals # << >>

\* C9: the returned list holds at most one signal per asset.  The code adds
\* one signal per entry of supported_assets, and the list may name an asset
\* twice.
C9_OnePerAsset ==
    \A i, j \in Indices(final_signals) :
        final_signals[i].asset = final_signals[j].asset => i = j

\* C10: an asset matched by the exclusion list is never evaluated and never
\* in the output; an asset that is not matched has every timeframe evaluated
\* once by the end of the run.
C10_Excluded ==
    pc \in {"asset", "tf", "done"} =>
        \A a \in Indices(supported_assets) :
            /\ Matched(a) =>
                 /\ \A t \in Indices(timeframes) : evals[<< a, t >>] = 0
                 /\ \A i \in Indices(final_signals) :
                      final_signals[i].asset # supported_assets[a]
            /\ (~Matched(a) /\ pc = "done") =>
                 \A t \in Indices(timeframes) : evals[<< a, t >>] = 1

\* A run ended that skipped BTC/USDT:USDT because BTC/USDT was excluded and
\* returned a signal for the other asset.
C10_Witness ==
    /\ pc = "done"
    /\ exclude_assets = {BTC}
    /\ supported_assets = << BTCFutures, ETH >>
    /\ Len(final_signals) = 1
    /\ final_signals[1].asset = ETH

----------------------------------------------------------------------------
(* POST /generate (api/routes/generate.py) over the signals table *)

\* The values of SignalStatus.
SignalStatus == {"active", "closed", "invalidated"}

\* Signal(...) as _save_signal builds it: status takes its column default.
\* Of the row, the asset and the status are kept.
NewRow(asset) == [asset |-> asset, status |-> "active"]

\* db.query(Signal).filter(Signal.status == "active").all(), then
\* {s.asset for s in active_signals}.
ActiveAssets(table) ==
    {table[i].asset : i \in {j \in DOMAIN table : table[j].status = "active"}}

\* What generate_all(use_news=True, exclude_assets=excl) can return, each
\* signal reduced to its asset: every configured asset that is not excluded
\* contributes one signal or none, in the configured order.
RECURSIVE GenerateAllResults(_, _)
GenerateAllResults(assets, excl) ==
    IF assets = << >> THEN {<< >>}
    ELSE LET rest == GenerateAllResults(Tail(assets), excl)
         IN  IF IsExcluded(Head(assets), excl) THEN rest
             ELSE rest \cup {<< Head(assets) >> \o r : r \in rest}

\* Requests the server processes at the same time.
MaxRequests == 2

Requests == 1..MaxRequests

\* supported_assets.txt of the deployment: two assets, no line repeated.
ApiAssets == << BTCFutures, ETH >>

\* Each request saves at most one row per configured asset.
RowIds == 1..(MaxRequests * Len(ApiAssets))

NewRequest == [at |-> "received", active_assets |-> {}, raw_list |-> << >>, created |-> 0]

InitApi ==
    /\ IdleGen
    /\ IdleFn
    /\ supported_assets = ApiAssets
    /\ timeframes = DefaultTimeframes
    /\ exclude_assets = {}
    /\ pc = "off"
    /\ asset_i = 0
    /\ tf_i = 0
    /\ asset_signals = << >>
    /\ final_signals = << >>
    /\ evals = << >>
    /\ last_outcome = ""
    /\ db = << >>
    /\ req = [r \in Requests |-> NewRequest]

\* generate_signals, lines 50-52: the active set is read.
ReadActive(r) ==
    /\ req[r].at = "received"
    /\ req' = [req EXCEPT ![r].at = "read", ![r].active_assets = ActiveAssets(db)]
    /\ UNCHANGED << db, fnVars, genVars, allVars >>

\* generate_signals, lines 54-55: generate_all runs with the set read before.
GenerateAll(r) ==
    /\ req[r].at = "read"
    /\ \E raw \in GenerateAllResults(supported_assets, req[r].active_assets) :
         req' = [req EXCEPT ![r].at = "saving", ![r].raw_list = raw]
    /\ UNCHANGED << db, fnVars, genVars, allVars >>

\* One pass of the loop of lines 58-60: _save_signal adds the row and commits.
SaveSignal(r) ==
    /\ req[r].at = "saving"
    /\ req[r].raw_list # << >>
    /\ db' = Append(db, NewRow(Head(req[r].raw_list)))
    /\ req' = [req EXCEPT ![r].raw_list = Tail(@), ![r].created = @ + 1]
    /\ UNCHANGED << fnVars, genVars, allVars >>

\* generate_signals, line 61: the response.
Respond(r) ==
    /\ req[r].at = "saving"
    /\ req[r].raw_list = << >>
    /\ req' = [req EXCEPT ![r].at = "responded"]
    /\ UNCHANGED << db, fnVars, genVars, allVars >>

\* PATCH /signals/{id} with a status in the body (routes/signals.py).
UpdateSignal(i, status) ==
    /\ i \in DOMAIN db
    /\ db[i].status # status
    /\ db' = [db EXCEPT ![i].status = status]
    /\ UNCHANGED << req, fnVars, genVars, allVars >>

NextApi ==
    \/ \E r \in Requests : ReadActive(r)
    \/ \E r \in Requests : GenerateAll(r)
    \/ \E r \in Requests : SaveSignal(r)
    \/ \E r \in Requests : Respond(r)
    \/ \E i \in RowIds, status \in SignalStatus : UpdateSignal(i, status)

SpecApi == InitApi /\ [][NextApi]_vars

\* C11: in every reachable state, requests interleaved or not, each asset
\* has at most one row with status active among the rows POST /generate
\* created.
C11_OneActivePerAsset ==
    \A i, j \in DOMAIN db :
        (db[i].asset = db[j].asset /\ db[i].status = "active" /\ db[j].status = "active")
            => i = j

----------------------------------------------------------------------------
(* Claims on the confirmation note (Spec) *)

\* The note the promoted signal carries.
PromotedNote == Promoted.confirmation[Len(Promoted.confirmation)]

\* The candidates of the asset that have the promoted direction.
Confirming == {i \in Indices(asset_signals) : asset_signals[i].direction = Promoted.direction}

\* C12: when a signal is promoted, the note added to it lists exactly the
\* timeframes of the candidates that have the promoted direction, each once,
\* and its count is their number; the timeframe of a candidate of the other
\* direction, and a timeframe that produced no candidate, is not listed.
C12_ConfirmingTimeframes ==
    [][(AggregateStep /\ final_signals' # final_signals) =>
        /\ Len(Promoted.confirmation) = 1
        /\ Range(PromotedNote.tfs) = {asset_signals[i].timeframe : i \in Confirming}
        /\ Len(PromotedNote.tfs) = Cardinality(Confirming)
        /\ PromotedNote.count = Cardinality(Confirming)
        /\ \A i \in Indices(asset_signals) :
             i \notin Confirming => asset_signals[i].timeframe \notin Range(PromotedNote.tfs)
        /\ \A t \in Range(timeframes) :
             (\A i \in Indices(asset_signals) : asset_signals[i].timeframe # t)
                => t \notin Range(PromotedNote.tfs)
      ]_vars

\* Three SHORT candidates on 1h, 2h and 1d were promoted while the 4h
\* timeframe produced no candidate: the note counts 3 and names those three.
C12_Witness ==
    /\ pc = "asset"
    /\ asset_i > 1
    /\ Len(asset_signals) = 3
    /\ asset_signals[1].asset = supported_assets[asset_i - 1]
    /\ {asset_signals[i].timeframe : i \in Indices(asset_signals)} = {"1h", "2h", "1d"}
    /\ final_signals # << >>
    /\ final_signals[Len(final_signals)].asset = supported_assets[asset_i - 1]
    /\ final_signals[Len(final_signals)].direction = "SHORT"
    /\ final_signals[Len(final_signals)].confirmation =
         << [count |-> 3, tfs |-> << "1h", "2h", "1d" >>] >>

----------------------------------------------------------------------------
(* Claims on the direction of a returned signal (SpecGen) *)

\* The ATR generate works with: the indicator's value, 2% of the close when
\* it is missing or zero.
UsedAtr == IF gen_in.atr = {} \/ Val(gen_in.atr) = 0 THEN gen_in.close \div 50 ELSE Val(gen_in.atr)

\* The plan computed in step 3 of generate for direction d.
ScenarioFor(d) ==
    compute_dynamic_levels(gen_in.close, UsedAtr, d,
        IF gen_in.nbars < SRLookback THEN {} ELSE gen_in.supports,
        IF gen_in.nbars < SRLookback THEN {} ELSE gen_in.resistances,
        ZonesOf(gen_in.patterns, "order_block_bullish", "order_block_bearish"),
        ZonesOf(gen_in.patterns, "fvg_bullish", "fvg_bearish"))

\* C13: every signal generate returns has direction LONG or SHORT, whatever
\* direction string the reasoning response carried, and its stop and targets
\* are those of the plan computed for that direction.  The code passes any
\* string other than NEUTRAL through unchanged.
C13_DirectionalSignal ==
    Returned =>
        /\ Sig.direction \in {"LONG", "SHORT"}
        /\ Sig.stop_loss = ScenarioFor(Sig.direction).sl
        /\ Sig.take_profit_1 = ScenarioFor(Sig.direction).tp1
        /\ Sig.take_profit_2 = ScenarioFor(Sig.direction).tp2
        /\ Sig.take_profit_3 = ScenarioFor(Sig.direction).tp3

----------------------------------------------------------------------------
(* SpecRisk: the RiskCalculator called on its own. *)

\* Entries and ATRs handed to compute_levels: entries are multiples of 50
\* ticks, positive ATRs multiples of 20 ticks; 0 and a negative ATR take the
\* 2% fallback.
LevelEntries == {50 * k : k \in {1, 2, 20, 21, 40, 800}}

LevelAtrs == {20 * k : k \in {1, 2, 3, 5, 50}} \cup {0, 0 - 20}

LevelDirections == {"LONG", "SHORT", "long", "BUY"}

ComputeLevelsInputs ==
    [op : {"compute_levels"}, entry : LevelEntries, atr : LevelAtrs,
     direction : LevelDirections]

\* Levels around EntryPrice for compute_dynamic_levels.  With an ATR of 20
\* ticks min_dist is 6 and max_sl_dist 30, with 40 ticks they are 12 and 60.
LowLevels == {EntryPrice - d : d \in {4, 6, 12, 30, 70}}

HighLevels == {EntryPrice + d : d \in {4, 6, 12, 30, 70}}

\* supports may hold a level above the entry and resistances one below it.
SupportSets == (SUBSET LowLevels) \cup {{EntryPrice + 10}, {EntryPrice + 10, EntryPrice - 12}}

ResistanceSets == (SUBSET HighLevels) \cup {{EntryPrice - 10}, {EntryPrice - 10, EntryPrice + 12}}

Zone(type, low, high) == [type |-> type, low |-> low, high |-> high]

\* The last pair of order blocks spans the entry.
OrderBlockSets ==
    LET bull == Zone("bullish", EntryPrice - 10, EntryPrice - 8)
        bear == Zone("bearish", EntryPrice + 8, EntryPrice + 10)
    IN  {{}, {bull}, {bear}, {bull, bear},
         {Zone("bullish", EntryPrice - 20, EntryPrice + 20),
          Zone("bearish", EntryPrice - 20, EntryPrice + 20)}}

FvgSets ==
    {{}, {Zone("bullish", EntryPrice - 50, EntryPrice - 44)},
         {Zone("bearish", EntryPrice + 44, EntryPrice + 50)},
         {Zone("bullish", EntryPrice + 2, EntryPrice + 8),
          Zone("bearish", EntryPrice - 8, EntryPrice - 2)}}

DynamicInputs ==
    [op : {"compute_dynamic_levels"}, entry : {EntryPrice}, atr : {20, 40, 0, 0 - 20},
     direction : {"LONG", "SHORT"}, supports : SupportSets, resistances : ResistanceSets,
     order_blocks : OrderBlockSets, fvg_zones : FvgSets]

NotCalled == [op |-> "none"]

InitRisk ==
    /\ IdleGen
    /\ IdleApi
    /\ supported_assets = << >>
    /\ timeframes = << >>
    /\ exclude_assets = {}
    /\ pc = "off"
    /\ asset_i = 0
    /\ tf_i = 0
    /\ asset_signals = << >>
    /\ final_signals = << >>
    /\ evals = << >>
    /\ last_outcome = ""
    /\ fn_in \in ComputeLevelsInputs \cup DynamicInputs
    /\ fn_out = NotCalled

ComputeLevelsCall ==
    /\ fn_out.op = "none"
    /\ fn_in.op = "compute_levels"
    /\ fn_out' = [op |-> "compute_levels",
                  plan |-> compute_levels(fn_in.entry, fn_in.atr, fn_in.direction)]
    /\ UNCHANGED << fn_in, apiVars, genVars, allVars >>

ComputeDynamicLevelsCall ==
    /\ fn_out.op = "none"
    /\ fn_in.op = "compute_dynamic_levels"
    /\ fn_out' = [op |-> "compute_dynamic_levels",
                  plan |-> compute_dynamic_levels(fn_in.entry, fn_in.atr, fn_in.direction,
                               fn_in.supports, fn_in.resistances,
                               fn_in.order_blocks, fn_in.fvg_zones),
                  tps |-> dynamic_tps(fn_in.entry, fn_in.atr, fn_in.direction,
                               fn_in.supports, fn_in.resistances)]
    /\ UNCHANGED << fn_in, apiVars, genVars, allVars >>

NextRisk == ComputeLevelsCall \/ ComputeDynamicLevelsCall

SpecRisk == InitRisk /\ [][NextRisk]_vars

\* compute_levels has returned for a positive entry and ATR.
LevelsReturned == fn_out.op = "compute_levels" /\ fn_in.entry > 0 /\ fn_in.atr > 0

\* +1 for LONG, -1 for SHORT.
Sign == IF fn_in.direction = "LONG" THEN 1 ELSE 0 - 1

\* C14: for entry > 0 and ATR > 0, compute_levels puts the stop 2.0 ATR
\* against the direction and the targets 1.5, 2.5 and 4.0 ATR along it (LONG
\* above the entry, SHORT below), and risk_reward is 4/3 whatever the entry,
\* the ATR and the direction.
C14_VolatilityOnly ==
    (LevelsReturned /\ fn_in.direction \in {"LONG", "SHORT"}) =>
        /\ 10 * (fn_in.entry - fn_out.plan.sl) = Sign * 20 * fn_in.atr
        /\ 10 * (fn_out.plan.tp1 - fn_in.entry) = Sign * 15 * fn_in.atr
        /\ 10 * (fn_out.plan.tp2 - fn_in.entry) = Sign * 25 * fn_in.atr
        /\ 10 * (fn_out.plan.tp3 - fn_in.entry) = Sign * 40 * fn_in.atr
        /\ 3 * fn_out.plan.rr.rr_num = 4 * fn_out.plan.rr.rr_den

\* Entry 100.0 (1000 ticks of 0.1), ATR 2.0, LONG: 96, 103, 105, 108 and
\* 1.333.
C14_Witness ==
    /\ fn_out.op = "compute_levels"
    /\ fn_in.entry = 1000
    /\ fn_in.atr = 20
    /\ fn_in.direction = "LONG"
    /\ << fn_out.plan.sl, fn_out.plan.tp1, fn_out.plan.tp2, fn_out.plan.tp3 >>
         = << 960, 1030, 1050, 1080 >>
    /\ RoundHalfEven(1000 * fn_out.plan.rr.rr_num, fn_out.plan.rr.rr_den) = 1333

----------------------------------------------------------------------------
(* SpecML: MLPredictor.predict called on its own. *)

\* Predictor states: nothing loaded, or a model and a scaler fitted on one
\* feature fewer, the built length, or one more; calls that run through or
\* raise; three class labels and probabilities with and without a second
\* decimal once multiplied by 100.
PredictorStates ==
    {MLNotLoaded}
    \cup {MLLoaded(n, e, c, p) :
            n \in {n_features_static - 1, n_features_static, n_features_static + 1},
            e \in {NoExc, "ValueError", "AttributeError"},
            c \in {0, 1, 2},
            p \in {5000, 6250, 8889, 9995, 10000}}

PredictInputs == [op : {"predict"}, ml : PredictorStates, nbars : {0, 1, 2, 60}]

InitML ==
    /\ IdleGen
    /\ IdleApi
    /\ supported_assets = << >>
    /\ timeframes = << >>
    /\ exclude_assets = {}
    /\ pc = "off"
    /\ asset_i = 0
    /\ tf_i = 0
    /\ asset_signals = << >>
    /\ final_signals = << >>
    /\ evals = << >>
    /\ last_outcome = ""
    /\ fn_in \in PredictInputs
    /\ fn_out = NotCalled

PredictCall ==
    /\ fn_out.op = "none"
    /\ fn_in.op = "predict"
    /\ fn_out' = [op |-> "predict", res |-> predict(fn_in.ml, fn_in.nbars)]
    /\ UNCHANGED << fn_in, apiVars, genVars, allVars >>

NextML == PredictCall

SpecML == InitML /\ [][NextML]_vars

PredictReturned == fn_out.op = "predict"

\* One of the four cases in which predict has nothing to predict from.
NothingToPredict ==
    \/ ~fn_in.ml.loaded
    \/ fn_in.nbars < 2
    \/ fn_in.ml.n_features_in # n_features_static
    \/ fn_in.ml.raises # NoExc

\* The parts of C15 that do not depend on how the confidence is rounded:
\* predict never raises, gives (None, 0.0) in the four cases and a direction
\* LONG or SHORT otherwise.
PredictOutcome ==
    /\ fn_out.res.exc = NoExc
    /\ NothingToPredict => (fn_out.res.direction = "None" /\ fn_out.res.confidence = 0)
    /\ ~NothingToPredict => fn_out.res.direction \in {"LONG", "SHORT"}

\* C15 as stated: predict never raises; it returns (None, 0.0) when nothing
\* is loaded, the series has fewer than 2 rows, the feature length differs
\* from the scaler's or the model call fails; otherwise a direction LONG or
\* SHORT with confidence equal to the largest class probability times 100.
C15_PredictExact ==
    PredictReturned =>
        /\ PredictOutcome
        /\ ~NothingToPredict => fn_out.res.confidence = fn_in.ml.proba

\* C15 amended: as above, the confidence being the largest class probability
\* times 100 rounded to one decimal place.
C15_PredictRounded ==
    PredictReturned =>
        /\ PredictOutcome
        /\ ~NothingToPredict =>
             /\ fn_out.res.confidence % 10 = 0
             /\ 2 * Abs(fn_out.res.confidence - fn_in.ml.proba) <= 10

\* A loaded predictor given 60 bars, its scaler fitted on the built length,
\* whose model call raised ValueError: predict returned (None, 0.0).
C15_Witness ==
    /\ PredictReturned
    /\ fn_in.ml.loaded
    /\ fn_in.nbars = 60
    /\ fn_in.ml.n_features_in = n_features_static
    /\ fn_in.ml.raises = "ValueError"
    /\ fn_out.res = NoPrediction

----------------------------------------------------------------------------
(* compute_support_resistance (indicators/support_resistance.py).  A bar    *)
(* series is a sequence of bars [high, low, close], oldest first.            *)

\* df.tail(k) for k > 0: the last k bars, all of them when there are fewer.
TailN(df, k) == SubSeq(df, Max2(1, Len(df) - k + 1), Len(df))

Highs(df) == [i \in 1..Len(df) |-> df[i].high]

Lows(df) == [i \in 1..Len(df) |-> df[i].low]

Closes(df) == [i \in 1..Len(df) |-> df[i].close]

\* np.max and np.min of s[a..b] (1-based, inclusive).
MaxOf(s, a, b) == SetMax({s[i] : i \in a..b})

MinOf(s, a, b) == SetMin({s[i] : i \in a..b})

\* Defaults of num_levels and of proximity_pct (0.002, in thousandths).
num_levels_default == 5
proximity_pct_default == 2

\* The loop of lines 46-55 over the ascending levels: a level is kept unless
\* it is not positive or lies within proximity of a level kept before.
RECURSIVE MergeLevels(_, _, _)
MergeLevels(levels, clustered, proximity) ==
    IF levels = << >> THEN clustered
    ELSE LET lvl == Head(levels)
             found == \E i \in 1..Len(clustered) :
                          1000 * Abs(lvl - clustered[i]) <= proximity * clustered[i]
         IN  MergeLevels(Tail(levels),
                         IF lvl <= 0 \/ found THEN clustered ELSE Append(clustered, lvl),
                         proximity)

\* clustered.sort(key=lambda x: abs(x - ref)) on the set of kept levels: the
\* sort is stable and the list ascending, so of two levels at the same
\* distance the lower comes first.
RECURSIVE SortByDistance(_, _)
SortByDistance(S, ref) ==
    IF S = {} THEN << >>
    ELSE LET x == CHOOSE y \in S :
                    \A z \in S : \/ Abs(y - ref) < Abs(z - ref)
                                 \/ (Abs(y - ref) = Abs(z - ref) /\ y <= z)
         IN  << x >> \o SortByDistance(S \ {x}, ref)

\* cluster_levels keeping the levels after the first num_levels.
cluster_levels_mut(levels, ref, proximity, num_levels) ==
    IF levels = << >> THEN << >>
    ELSE LET clustered == MergeLevels(SortAsc(Range(levels)), << >>, proximity)
             sorted == SortByDistance(Range(clustered), ref)
         IN  SubSeq(sorted, Min2(num_levels, Len(sorted)) + 1, Len(sorted))

\* cluster_levels(levels, ref), with the proximity_pct and num_levels it
\* takes from the enclosing call (num_levels >= 0).
cluster_levels(levels, ref, proximity, num_levels) ==
    IF levels = << >> THEN << >>
    ELSE LET clustered == MergeLevels(SortAsc(Range(levels)), << >>, proximity)
             sorted == SortByDistance(Range(clustered), ref)
         IN  SubSeq(sorted, 1, Min2(num_levels, Len(sorted)))

\* The values s[j] that are the largest (smallest for sign = -1) of their
\* window s[j-window .. j+window], in bar order (lines 30-39).
RECURSIVE LocalExtrema(_, _, _, _)
LocalExtrema(s, window, j, sign) ==
    IF j > Len(s) - window THEN << >>
    ELSE LET ext == IF sign > 0 THEN MaxOf(s, j - window, j + window)
                    ELSE MinOf(s, j - window, j + window)
         IN  (IF s[j] = ext THEN << s[j] >> ELSE << >>)
             \o LocalExtrema(s, window, j + 1, sign)

NoLevels == [supports |-> << >>, resistances |-> << >>]

\* compute_support_resistance without its guard on the length of the series.
compute_support_resistance_mut(df, lookback, num_levels, proximity) ==
    IF df = << >> THEN NoLevels
    ELSE LET recent == TailN(df, lookback)
             close == recent[Len(recent)].close
             window == Max2(3, lookback \div 20)
         IN  [supports |->
                cluster_levels(LocalExtrema(Lows(recent), window, window + 1, 0 - 1),
                               close, proximity, num_levels),
              resistances |->
                cluster_levels(LocalExtrema(Highs(recent), window, window + 1, 1),
                               close, proximity, num_levels)]

\* compute_support_resistance(df, lookback, num_levels, proximity_pct) for a
\* positive lookback.
compute_support_resistance(df, lookback, num_levels, proximity) ==
    IF df = << >> \/ Len(df) < lookback THEN NoLevels
    ELSE LET recent == TailN(df, lookback)
             close == recent[Len(recent)].close
             window == Max2(3, lookback \div 20)
         IN  [supports |->
                cluster_levels(LocalExtrema(Lows(recent), window, window + 1, 0 - 1),
                               close, proximity, num_levels),
              resistances |->
                cluster_levels(LocalExtrema(Highs(recent), window, window + 1, 1),
                               close, proximity, num_levels)]

----------------------------------------------------------------------------
(* PatternDetector (patterns/detector.py).  A result is kept as its          *)
(* pattern_type, its level_or_price and its (empty) metadata.                *)

RECURSIVE SumUpTo(_, _)
SumUpTo(s, k) == IF k = 0 THEN 0 ELSE s[k] + SumUpTo(s, k - 1)

Sum(s) == SumUpTo(s, Len(s))

\* The sign of np.polyfit(np.arange(n), ys, 1)[0] is the sign of
\* n * sum(x*y) - sum(x) * sum(y), its numerator over the positive
\* n * sum(x*x) - sum(x)^2.
SlopeNum(ys) ==
    LET n == Len(ys)
        xs == [i \in 1..n |-> i - 1]
        xy == [i \in 1..n |-> (i - 1) * ys[i]]
    IN  n * Sum(xy) - Sum(xs) * Sum(ys)

SlopeDen(n) ==
    LET xs == [i \in 1..n |-> i - 1]
        xx == [i \in 1..n |-> (i - 1) * (i - 1)]
    IN  n * Sum(xx) - Sum(xs) * Sum(xs)

trendlines(df) ==
    LET closes == Closes(df)
        n == Len(closes)
        slope_20 == SlopeNum(TailN(closes, 20))
        slope_50 == IF n >= 50 THEN SlopeNum(TailN(closes, 50)) ELSE slope_20
    IN  IF n < 20 THEN << >>
        ELSE IF slope_20 > 0 /\ slope_50 > 0
        THEN << PatternAt("trendline_up", closes[n], 1) >>
        ELSE IF slope_20 < 0 /\ slope_50 < 0
        THEN << PatternAt("trendline_down", closes[n], 1) >>
        ELSE << >>

breakout_fakeout(df) ==
    LET n == Len(df)
        res == IF n >= 25 THEN MaxOf(Highs(df), n - 24, n - 3) ELSE MaxOf(Highs(df), 1, n - 3)
        sup == IF n >= 25 THEN MinOf(Lows(df), n - 24, n - 3) ELSE MinOf(Lows(df), 1, n - 3)
        last_close == df[n].close
        prev_close == df[n - 1].close
    IN  IF n < 30 THEN << >>
        ELSE (IF last_close > res /\ prev_close <= res
              THEN << PatternAt("breakout_up", res, 1) >> ELSE << >>)
             \o (IF last_close < sup /\ prev_close >= sup
                 THEN << PatternAt("breakout_down", sup, 1) >> ELSE << >>)

\* The two largest values of s, as np.argsort(s)[-2:] selects them; for the
\* two smallest, the two largest of the negated values.
TopTwo(s) ==
    LET i1 == CHOOSE i \in 1..Len(s) : \A j \in 1..Len(s) : s[j] <= s[i]
        i2 == CHOOSE i \in (1..Len(s)) \ {i1} : \A j \in (1..Len(s)) \ {i1} : s[j] <= s[i]
    IN  << s[i1], s[i2] >>

\* double_top_bottom accepting a relative difference of exactly 1%.
double_top_bottom_mut(df) ==
    LET n == Len(df)
        m == (n + 1) \div 2
        half == TailN(Highs(df), m)
        half_low == TailN(Lows(df), m)
        p == TopTwo(half)
        t == TopTwo([i \in 1..Len(half_low) |-> 0 - half_low[i]])
        t1 == 0 - t[1]
        t2 == 0 - t[2]
        close == df[n].close
    IN  IF n < 40 THEN << >>
        ELSE (IF 100 * Abs(p[1] - p[2]) <= Max2(p[1], p[2]) /\ 2 * close < p[1] + p[2]
              THEN << PatternAt("double_top", p[1] + p[2], 2) >> ELSE << >>)
             \o (IF 100 * Abs(t1 - t2) <= Max2(t1, t2) /\ 2 * close > t1 + t2
                 THEN << PatternAt("double_bottom", t1 + t2, 2) >> ELSE << >>)

double_top_bottom(df) ==
    LET n == Len(df)
        m == (n + 1) \div 2                 \* high[-n // 2:] holds ceil(n / 2) bars
        half == TailN(Highs(df), m)
        half_low == TailN(Lows(df), m)
        p == TopTwo(half)
        t == TopTwo([i \in 1..Len(half_low) |-> 0 - half_low[i]])
        t1 == 0 - t[1]
        t2 == 0 - t[2]
        close == df[n].close
    IN  IF n < 40 THEN << >>
        ELSE (IF 100 * Abs(p[1] - p[2]) < Max2(p[1], p[2]) /\ 2 * close < p[1] + p[2]
              THEN << PatternAt("double_top", p[1] + p[2], 2) >> ELSE << >>)
             \o (IF 100 * Abs(t1 - t2) < Max2(t1, t2) /\ 2 * close > t1 + t2
                 THEN << PatternAt("double_bottom", t1 + t2, 2) >> ELSE << >>)

head_shoulders(df) ==
    LET n == Len(df)
        window == n \div 3
        high == Highs(df)
        low == Lows(df)
        p1 == MaxOf(high, 1, window)
        p2 == MaxOf(high, window + 1, 2 * window)
        p3 == MaxOf(high, 2 * window + 1, n)
        t1 == MinOf(low, 1, window)
        t2 == MinOf(low, window + 1, 2 * window)
        t3 == MinOf(low, 2 * window + 1, n)
    IN  IF n < 50 THEN << >>
        ELSE (IF p2 > p1 /\ p2 > p3 /\ 50 * Abs(p1 - p3) < Max2(p1, p3)
              THEN << PatternAt("head_shoulders", p2, 1) >> ELSE << >>)
             \o (IF t2 < t1 /\ t2 < t3 /\ 50 * Abs(t1 - t3) < Max2(t1, t3)
                 THEN << PatternAt("head_shoulders_inverse", t2, 1) >> ELSE << >>)

\* a / b < c / d for a, c >= 0 and b, d > 0, compared through the integer
\* parts and the inverted remainders so that no product is formed.
RECURSIVE FracLess(_, _, _, _)
FracLess(a, b, c, d) ==
    IF a \div b # c \div d THEN a \div b < c \div d
    ELSE IF c % d = 0 THEN FALSE
    ELSE IF a % b = 0 THEN TRUE
    ELSE FracLess(d, c % d, b, a % b)

\* abs(slope_high - slope_low) / avg < 0.001 with the slopes over the common
\* denominator SlopeDen(n) and avg = sum(close) / n.
channel(df) ==
    LET n == Len(df)
        slope_high == SlopeNum(Highs(df))
        slope_low == SlopeNum(Lows(df))
    IN  IF n < 30 THEN << >>
        ELSE IF /\ slope_high > 0
                /\ slope_low > 0
                /\ FracLess(Abs(slope_high - slope_low), SlopeDen(n),
                            Sum(Closes(df)), 1000 * n)
        THEN << Pattern("channel_up") >>
        ELSE IF slope_high < 0 /\ slope_low < 0 THEN << Pattern("channel_down") >>
        ELSE << >>

\* _range: range_20 / avg < 0.05 with avg = sum(close) / n.
range_pattern(df) ==
    LET n == Len(df)
        range_20 == MaxOf(Highs(df), n - 19, n) - MinOf(Lows(df), n - 19, n)
    IN  IF n < 20 THEN << >>
        ELSE IF 20 * n * range_20 < Sum(Closes(df))
        THEN << PatternAt("range", Sum(Closes(df)), n) >>
        ELSE << >>

\* RunDetectors with a detector of bullish order blocks added.
RunDetectors_mut(recent) ==
    trendlines(recent) \o breakout_fakeout(recent) \o double_top_bottom(recent)
        \o head_shoulders(recent) \o channel(recent) \o range_pattern(recent)
        \o << [pattern_type |-> "order_block_bullish",
               metadata |-> {[low |-> recent[Len(recent)].low - 10,
                              high |-> recent[Len(recent)].low - 8]},
               level_or_price |-> {}] >>

\* The six detectors on the last lookback bars, in the order of detect_all.
RunDetectors(recent) ==
    trendlines(recent) \o breakout_fakeout(recent) \o double_top_bottom(recent)
        \o head_shoulders(recent) \o channel(recent) \o range_pattern(recent)

\* The fewest bars detect_all looks at.
MinPatternBars == 30

\* PatternDetector(lookback).detect_all(df)
detect_all(df, lookback) ==
    IF df = << >> \/ Len(df) < MinPatternBars THEN << >>
    ELSE RunDetectors(TailN(df, lookback))

----------------------------------------------------------------------------
(* SpecSR: the level extractor and the pattern detector called on their own. *)

\* A triangle wave of period 16 between 0 and 8.
Tri(i) == Abs((i % 16) - 8)

\* The close of bar i of an n-bar series of each shape, in ticks.
Price(shape, i, n) ==
    CASE shape = "flat" -> 1000
      [] shape = "up" -> 1000 + 2 * i
      [] shape = "down" -> 1400 - 2 * i
      [] shape = "wave" -> 1000 + 4 * Tri(i)
      [] shape = "wave_up" -> 1000 + 2 * i + 6 * Tri(i)
      [] shape = "spike" -> IF i = n THEN 1100 ELSE 1000 + Tri(i)
      [] shape = "dip" -> IF i = n THEN 900 ELSE 1000 + Tri(i)
      [] shape = "dome" -> 1100 - Abs(2 * i - n)
      [] shape = "bowl" -> 1000 + Abs(2 * i - n)
      [] shape = "fan_up" -> 1000 + 2 * i
      [] shape = "fan_down" -> 1400 - 2 * i
      [] shape = "twin_top" -> IF i = n - 10 THEN 998 ELSE IF i = n - 4 THEN 992 ELSE 900
      [] shape = "twin_top_1pct" -> IF i = n - 10 THEN 998 ELSE IF i = n - 4 THEN 988 ELSE 900
      [] shape = "twin_bottom" -> IF i = n - 10 THEN 996 ELSE IF i = n - 4 THEN 1002 ELSE 1100
      [] shape = "twin_bottom_1pct" ->
            IF i = n - 10 THEN 992 ELSE IF i = n - 4 THEN 1002 ELSE 1100

\* Half the height of bar i: 2 ticks, growing by a tick per bar in the fans,
\* whose highs and lows drift apart.
Spread(shape, i) == IF shape \in {"fan_up", "fan_down"} THEN 2 + i ELSE 2

Shapes ==
    {"flat", "up", "down", "wave", "wave_up", "spike", "dip", "dome", "bowl",
     "fan_up", "fan_down", "twin_top", "twin_top_1pct", "twin_bottom", "twin_bottom_1pct"}

\* Every bar spans its spread either side of its close.
Series(shape, n) ==
    [i \in 1..n |-> [high |-> Price(shape, i, n) + Spread(shape, i),
                     low |-> Price(shape, i, n) - Spread(shape, i),
                     close |-> Price(shape, i, n)]]

SeriesLengths == {0, 1, 19, 20, 29, 30, 39, 40, 49, 50, 60, 99, 100, 120}

SupportResistanceInputs ==
    [op : {"compute_support_resistance"}, shape : Shapes, nbars : SeriesLengths,
     lookback : {20, SRLookback}, num_levels : {num_levels_default},
     proximity : {proximity_pct_default}]

DetectAllInputs ==
    [op : {"detect_all"}, shape : Shapes, nbars : SeriesLengths, lookback : {SRLookback}]

\* Candidate prices handed to cluster_levels, around a close of 1000 ticks:
\* 0.2% of it is 2 ticks.
ClusterPrices == {0 - 5, 0, 990, 998, 1000, 1002, 1004, 1010}

ClusterInputs ==
    [op : {"cluster_levels"}, levels : {SortDesc(S) : S \in SUBSET ClusterPrices},
     ref : {1000, 1003}, proximity : {0, proximity_pct_default, 5},
     num_levels : {0, 1, 2, num_levels_default}]

InitSR ==
    /\ IdleGen
    /\ IdleApi
    /\ supported_assets = << >>
    /\ timeframes = << >>
    /\ exclude_assets = {}
    /\ pc = "off"
    /\ asset_i = 0
    /\ tf_i = 0
    /\ asset_signals = << >>
    /\ final_signals = << >>
    /\ evals = << >>
    /\ last_outcome = ""
    /\ fn_in \in SupportResistanceInputs \cup DetectAllInputs \cup ClusterInputs
    /\ fn_out = NotCalled

SupportResistanceCall ==
    /\ fn_out.op = "none"
    /\ fn_in.op = "compute_support_resistance"
    /\ fn_out' = [op |-> "compute_support_resistance",
                  res |-> compute_support_resistance(Series(fn_in.shape, fn_in.nbars),
                              fn_in.lookback, fn_in.num_levels, fn_in.proximity)]
    /\ UNCHANGED << fn_in, apiVars, genVars, allVars >>

DetectAllCall ==
    /\ fn_out.op = "none"
    /\ fn_in.op = "detect_all"
    /\ fn_out' = [op |-> "detect_all",
                  res |-> detect_all(Series(fn_in.shape, fn_in.nbars), fn_in.lookback)]
    /\ UNCHANGED << fn_in, apiVars, genVars, allVars >>

\* cluster_levels, and cluster_levels again on what it returned.
ClusterCall ==
    /\ fn_out.op = "none"
    /\ fn_in.op = "cluster_levels"
    /\ LET once == cluster_levels(fn_in.levels, fn_in.ref, fn_in.proximity, fn_in.num_levels)
       IN  fn_out' = [op |-> "cluster_levels", res |-> once,
                      again |-> cluster_levels(once, fn_in.ref, fn_in.proximity,
                                               fn_in.num_levels)]
    /\ UNCHANGED << fn_in, apiVars, genVars, allVars >>

NextSR == SupportResistanceCall \/ DetectAllCall \/ ClusterCall

SpecSR == InitSR /\ [][NextSR]_vars

\* C16: compute_support_resistance returns two empty lists for every series
\* shorter than lookback, and detect_all returns an empty list for every
\* series shorter than 30 bars.
C16_InsufficientData ==
    /\ (fn_out.op = "compute_support_resistance" /\ fn_in.nbars < fn_in.lookback) =>
          (fn_out.res.supports = << >> /\ fn_out.res.resistances = << >>)
    /\ (fn_out.op = "detect_all" /\ fn_in.nbars < 30) => fn_out.res = << >>

\* A rising 99-bar series gave no levels with lookback 100.
C16_Witness ==
    /\ fn_out.op = "compute_support_resistance"
    /\ fn_in.shape = "wave_up"
    /\ fn_in.nbars = 99
    /\ fn_in.lookback = 100
    /\ fn_out.res = NoLevels

\* C17: clustering the output of cluster_levels again, with the same
\* reference and parameters, returns the same set of levels.
C17_ClusterIdempotent ==
    fn_out.op = "cluster_levels" => Range(fn_out.again) = Range(fn_out.res)

\* Seven candidates of which two were dropped as not positive and others
\* merged, the nearest two kept: clustering them again changed nothing.
C17_Witness ==
    /\ fn_out.op = "cluster_levels"
    /\ Len(fn_in.levels) = 8
    /\ fn_in.ref = 1003
    /\ fn_in.proximity = 2
    /\ fn_in.num_levels = 2
    /\ Len(fn_out.res) = 2
    /\ fn_out.again = fn_out.res

----------------------------------------------------------------------------
(* Claims on compute_dynamic_levels (SpecRisk) *)

\* compute_dynamic_levels has returned for a positive ATR.
DynamicReturned == fn_out.op = "compute_dynamic_levels" /\ fn_in.atr > 0

DynLong == fn_in.direction = "LONG"

\* Distance of a price from the entry, and of the entry from the plan's stop.
Dist(x) == Abs(x - fn_in.entry)

\* A price lies on the stop side (the reward side) of the entry.
StopSide(x) == IF DynLong THEN x < fn_in.entry ELSE x > fn_in.entry

RewardSide(x) == IF DynLong THEN x > fn_in.entry ELSE x < fn_in.entry

\* The stop candidates of C18: for LONG the supports and the lows of the
\* bullish zones, for SHORT the resistances and the highs of the bearish
\* zones, on the stop side at a distance between 0.3 and 1.5 ATR.
StopCandidates ==
    LET zones == fn_in.order_blocks \cup fn_in.fvg_zones
        prices == IF DynLong
                  THEN fn_in.supports \cup {z.low : z \in {y \in zones : y.type = "bullish"}}
                  ELSE fn_in.resistances \cup {z.high : z \in {y \in zones : y.type = "bearish"}}
    IN  {x \in prices : /\ StopSide(x)
                        /\ 3 * fn_in.atr <= 10 * Dist(x)
                        /\ 10 * Dist(x) <= 15 * fn_in.atr}

\* C18: the stop is 0.1 ATR beyond the candidate nearest to the entry (the
\* highest for LONG, the lowest for SHORT), and 1.5 ATR from the entry on the
\* stop side when there is no candidate.
C18_StopSelection ==
    DynamicReturned =>
        /\ StopSide(fn_out.plan.sl)
        /\ StopCandidates # {} =>
             \E c \in StopCandidates :
                /\ \A x \in StopCandidates : Dist(c) <= Dist(x)
                /\ 10 * (Dist(fn_out.plan.sl) - Dist(c)) = fn_in.atr
        /\ StopCandidates = {} => 10 * Dist(fn_out.plan.sl) = 15 * fn_in.atr

\* A LONG plan with ATR 20 whose candidates were a support 12 below the
\* entry, a support 30 below and the low of a bullish order block 10 below:
\* the stop is 2 below that low.  The support 4 below was too near.
C18_Witness ==
    /\ DynamicReturned
    /\ DynLong
    /\ fn_in.atr = 20
    /\ fn_in.supports = {EntryPrice - 4, EntryPrice - 12, EntryPrice - 30}
    /\ fn_in.order_blocks = {Zone("bullish", EntryPrice - 10, EntryPrice - 8)}
    /\ StopCandidates = {EntryPrice - 10, EntryPrice - 12, EntryPrice - 30}
    /\ fn_out.plan.sl = EntryPrice - 12

\* The levels C19 selects targets from: on the reward side (resistances for
\* LONG, supports for SHORT) and at least 0.3 ATR from the entry.
TargetLevels ==
    {x \in (IF DynLong THEN fn_in.resistances ELSE fn_in.supports) :
        RewardSide(x) /\ 10 * Dist(x) >= 3 * fn_in.atr}

Taken == Min2(3, Cardinality(TargetLevels))

\* C19: before target 1 is adjusted, the targets are the up to three nearest
\* levels of the reward side that are at least 0.3 ATR away, nearest first;
\* each missing target is the previous one (the entry when there is none)
\* moved 1.0 ATR further along the direction; no level nearer than 0.3 ATR
\* is a target.
C19_TargetSelection ==
    DynamicReturned =>
        /\ Len(fn_out.tps) = 3
        /\ \A i \in 1..3 :
             IF i <= Taken
             THEN /\ fn_out.tps[i] \in TargetLevels
                  /\ Cardinality({x \in TargetLevels : Dist(x) < Dist(fn_out.tps[i])}) = i - 1
             ELSE LET prev == IF i = 1 THEN fn_in.entry ELSE fn_out.tps[i - 1]
                  IN  fn_out.tps[i] = prev + (IF DynLong THEN fn_in.atr ELSE 0 - fn_in.atr)
        /\ \A i \in 1..3 : 10 * Dist(fn_out.tps[i]) >= 3 * fn_in.atr
        /\ fn_out.plan.tp2 = fn_out.tps[2]
        /\ fn_out.plan.tp3 = fn_out.tps[3]

\* A SHORT plan with ATR 20 and supports 4, 6 and 70 below the entry: the
\* targets are the supports 6 and 70 below, then 20 further; the support 4
\* below is skipped.
C19_Witness ==
    /\ DynamicReturned
    /\ ~DynLong
    /\ fn_in.atr = 20
    /\ fn_in.supports = {EntryPrice - 4, EntryPrice - 6, EntryPrice - 70}
    /\ fn_out.tps = << EntryPrice - 6, EntryPrice - 70, EntryPrice - 90 >>

\* C20: in every plan of compute_dynamic_levels target 1 is at least 1.5
\* times the risk from the entry, on the reward side, and it is the selected
\* target whenever that one is already that far.
C20_MinRewardTarget1 ==
    fn_out.op = "compute_dynamic_levels" =>
        /\ 2 * Dist(fn_out.plan.tp1) >= 3 * Dist(fn_out.plan.sl)
        /\ RewardSide(fn_out.plan.tp1)
        /\ 2 * Dist(fn_out.tps[1]) >= 3 * Dist(fn_out.plan.sl) =>
             fn_out.plan.tp1 = fn_out.tps[1]

\* A LONG plan whose stop is 30 below the entry and whose first selected
\* target, a resistance 6 above, was moved to 45 above.
C20_Witness ==
    /\ fn_out.op = "compute_dynamic_levels"
    /\ DynLong
    /\ fn_out.plan.sl = EntryPrice - 30
    /\ fn_out.tps[1] = EntryPrice + 6
    /\ fn_out.plan.tp1 = EntryPrice + 45

\* C21: the stop compute_dynamic_levels returns is never farther than
\* 1.5 ATR from the entry.  The code bounds the candidate by 1.5 ATR and
\* then moves the stop 0.1 ATR beyond it.
C21_MaxStopDistance ==
    DynamicReturned => 10 * Dist(fn_out.plan.sl) <= 15 * fn_in.atr

----------------------------------------------------------------------------
(* generate_all with more configured timeframes than the default (SpecWide) *)

\* Settings.supported_timeframes set to seven timeframes.
WideTimeframes == << "15m", "30m", "1h", "2h", "4h", "1d", "1w" >>

InitWide ==
    /\ IdleGen
    /\ IdleApi
    /\ IdleFn
    /\ supported_assets = << ETH >>
    /\ timeframes \in {DefaultTimeframes, WideTimeframes}
    /\ exclude_assets = {}
    /\ pc = "idle"
    /\ asset_i = 0
    /\ tf_i = 0
    /\ asset_signals = << >>
    /\ final_signals = << >>
    /\ evals = [p \in (1..Len(supported_assets)) \X (1..Len(timeframes)) |-> 0]
    /\ last_outcome = ""

SpecWide == InitWide /\ [][Next]_vars

\* C22: when the candidates of an asset are aggregated, a direction that has
\* at least 3 candidates and more candidates than the other direction is the
\* direction of the signal added for the asset.
C22_MajorityDirection ==
    [][AggregateStep =>
        \A d \in {"LONG", "SHORT"} :
           \A e \in {"LONG", "SHORT"} \ {d} :
              (/\ CountOf(asset_signals, d) >= 3
               /\ CountOf(asset_signals, d) > CountOf(asset_signals, e)) =>
                 /\ Len(final_signals') = Len(final_signals) + 1
                 /\ Promoted.direction = d
      ]_vars

----------------------------------------------------------------------------
(* Claims on the rule-based fallback judgment (SpecGen) *)

\* The call reached the reasoning step and the judgment is the rule-based one.
RuleBased == ReachedReasoning /\ gen_out.ai_result.rule_based

FallbackRsi == gen_in.indicators.rsi

FallbackHist == gen_in.indicators.macd_histogram

\* C23: the direction of the rule-based judgment is LONG for an RSI below
\* 30 and SHORT for an RSI above 70; for an RSI from 30 to 70 or a missing
\* RSI it is LONG for a positive or missing histogram and SHORT for a zero
\* or negative one.
C23_FallbackDirection ==
    RuleBased =>
        gen_out.ai_result.direction =
            IF FallbackRsi # {} /\ Val(FallbackRsi) < 30 THEN "LONG"
            ELSE IF FallbackRsi # {} /\ Val(FallbackRsi) > 70 THEN "SHORT"
            ELSE IF FallbackHist = {} \/ Val(FallbackHist) > 0 THEN "LONG"
            ELSE "SHORT"

\* The confidence the rule-based judgment should carry: 45, or 55 for an
\* RSI below 35 or above 65, plus 10 per pattern, at most 75 when there are
\* patterns.
FallbackConfidence ==
    LET base == IF FallbackRsi # {} /\ (Val(FallbackRsi) < 35 \/ Val(FallbackRsi) > 65)
                THEN 5500 ELSE 4500
        n == Len(gen_in.patterns)
    IN  IF n = 0 THEN base ELSE Min2(7500, base + 1000 * n)

\* C30: the confidence of the rule-based judgment is 45, 55, 65 or 75, as
\* the RSI and the number of patterns give it; and with no predictor loaded
\* a call that took the rule-based judgment on a valid close returns a
\* signal with that confidence, never None.
C30_FallbackConfidence ==
    RuleBased =>
        /\ gen_out.ai_result.confidence_score \in {4500, 5500, 6500, 7500}
        /\ gen_out.ai_result.confidence_score = FallbackConfidence
        /\ (~gen_in.ml.loaded /\ gen_in.close > 0) =>
              /\ gen_out.kind = "signal"
              /\ gen_out.sig.confidence_score = FallbackConfidence

\* The reasoning call failed on a response that is not JSON, the fallback
\* gave 45 (RSI 50, no pattern), no predictor is loaded and the signal is
\* returned.
C30_Witness ==
    /\ RuleBased
    /\ gen_in.has_key
    /\ gen_in.ai.kind = "not_json"
    /\ ~gen_in.ml.loaded
    /\ FallbackRsi = {50}
    /\ gen_in.patterns = << >>
    /\ gen_out.kind = "signal"
    /\ gen_out.sig.confidence_score = 4500

----------------------------------------------------------------------------
(* Claims on the pattern detector (SpecSR) *)

DetectReturned == fn_out.op = "detect_all"

\* The bars detect_all hands to the detectors: df.tail(lookback).
Window == TailN(Series(fn_in.shape, fn_in.nbars), fn_in.lookback)

Emitted(type) == \E i \in 1..Len(fn_out.res) : fn_out.res[i].pattern_type = type

SlopeHigh == SlopeNum(Highs(Window))

SlopeLow == SlopeNum(Lows(Window))

\* |slope_high - slope_low| / average close < 0.001
NearlyParallel ==
    FracLess(Abs(SlopeHigh - SlopeLow), SlopeDen(Len(Window)),
             Sum(Closes(Window)), 1000 * Len(Window))

\* C24: an ascending channel is emitted only when both slopes are positive
\* and nearly parallel, a descending one only when both are negative and
\* nearly parallel, and never both.
C24_ChannelParallel ==
    DetectReturned =>
        /\ Emitted("channel_up") => SlopeHigh > 0 /\ SlopeLow > 0 /\ NearlyParallel
        /\ Emitted("channel_down") => SlopeHigh < 0 /\ SlopeLow < 0 /\ NearlyParallel
        /\ ~(Emitted("channel_up") /\ Emitted("channel_down"))

\* The second half of the window: its last ceil(n / 2) bars.
HalfHighs == TailN(Highs(Window), (Len(Window) + 1) \div 2)

HalfLows == TailN(Lows(Window), (Len(Window) + 1) \div 2)

\* The largest value of s and the largest of the others (the same value when
\* the largest occurs twice).
Largest(s) == SetMax(Range(s))

SecondLargest(s) ==
    IF Cardinality({i \in 1..Len(s) : s[i] = Largest(s)}) > 1 THEN Largest(s)
    ELSE SetMax({s[i] : i \in {j \in 1..Len(s) : s[j] # Largest(s)}})

Smallest(s) == SetMin(Range(s))

SecondSmallest(s) ==
    IF Cardinality({i \in 1..Len(s) : s[i] = Smallest(s)}) > 1 THEN Smallest(s)
    ELSE SetMin({s[i] : i \in {j \in 1..Len(s) : s[j] # Smallest(s)}})

LastClose == Window[Len(Window)].close

\* The level of the emitted pattern of a type is the fraction sum / 2.
AnchoredAt(type, sum) ==
    \A i \in 1..Len(fn_out.res) :
        fn_out.res[i].pattern_type = type =>
            /\ fn_out.res[i].level_or_price # {}
            /\ 2 * Val(fn_out.res[i].level_or_price).num
                  = sum * Val(fn_out.res[i].level_or_price).den

\* C25 as stated: on a window of at least 40 bars a double top anchored at
\* the midpoint of the two highest highs of the second half is emitted
\* exactly when they differ by at most 1% of the larger and the latest close
\* is below the midpoint; a double bottom likewise for the two lowest lows
\* and a latest close above their midpoint.
C25_DoubleInclusive ==
    (DetectReturned /\ Len(Window) >= 40) =>
        /\ Emitted("double_top") <=>
              /\ 100 * (Largest(HalfHighs) - SecondLargest(HalfHighs)) <= Largest(HalfHighs)
              /\ 2 * LastClose < Largest(HalfHighs) + SecondLargest(HalfHighs)
        /\ AnchoredAt("double_top", Largest(HalfHighs) + SecondLargest(HalfHighs))
        /\ Emitted("double_bottom") <=>
              /\ 100 * (SecondSmallest(HalfLows) - Smallest(HalfLows)) <= SecondSmallest(HalfLows)
              /\ 2 * LastClose > Smallest(HalfLows) + SecondSmallest(HalfLows)
        /\ AnchoredAt("double_bottom", Smallest(HalfLows) + SecondSmallest(HalfLows))

\* C25 with the boundary excluded: the two highs (the two lows) differ by
\* less than 1% of the larger.
C25_DoubleStrict ==
    (DetectReturned /\ Len(Window) >= 40) =>
        /\ Emitted("double_top") <=>
              /\ 100 * (Largest(HalfHighs) - SecondLargest(HalfHighs)) < Largest(HalfHighs)
              /\ 2 * LastClose < Largest(HalfHighs) + SecondLargest(HalfHighs)
        /\ AnchoredAt("double_top", Largest(HalfHighs) + SecondLargest(HalfHighs))
        /\ Emitted("double_bottom") <=>
              /\ 100 * (SecondSmallest(HalfLows) - Smallest(HalfLows)) < SecondSmallest(HalfLows)
              /\ 2 * LastClose > Smallest(HalfLows) + SecondSmallest(HalfLows)
        /\ AnchoredAt("double_bottom", Smallest(HalfLows) + SecondSmallest(HalfLows))

\* Sixty bars whose two highest highs of the second half are 1000 and 994
\* with the latest close below them: a double top anchored at 997.
C25_Witness ==
    /\ DetectReturned
    /\ fn_in.shape = "twin_top"
    /\ fn_in.nbars = 60
    /\ Largest(HalfHighs) = 1000
    /\ SecondLargest(HalfHighs) = 994
    /\ \E i \in 1..Len(fn_out.res) :
          /\ fn_out.res[i].pattern_type = "double_top"
          /\ fn_out.res[i].level_or_price = {[num |-> 1994, den |-> 2]}

----------------------------------------------------------------------------
(* Further claims on compute_dynamic_levels (SpecRisk) *)

\* compute_dynamic_levels has returned, whatever the ATR passed in.
DynamicDone == fn_out.op = "compute_dynamic_levels"

\* The ATR the function works with: 2% of the entry for a non-positive one.
EffectiveAtr == IF fn_in.atr <= 0 THEN fn_in.entry \div 50 ELSE fn_in.atr

\* C26: the stop lies strictly on the stop side of the entry, at least
\* 0.4 ATR away, the ATR being positive; the risk/reward is the quotient
\* over that positive risk and is strictly positive.
C26_PositiveRisk ==
    DynamicDone =>
        /\ EffectiveAtr > 0
        /\ StopSide(fn_out.plan.sl)
        /\ 10 * Dist(fn_out.plan.sl) >= 4 * EffectiveAtr
        /\ fn_out.plan.rr.rr_den = 3 * Dist(fn_out.plan.sl)
        /\ fn_out.plan.rr.rr_num > 0

\* An ATR of 0 was replaced by 20 ticks and the only support lies 0.3 ATR
\* below the entry: the stop is 0.4 ATR below it.
C26_Witness ==
    /\ DynamicDone
    /\ fn_in.atr = 0
    /\ DynLong
    /\ fn_in.supports = {EntryPrice - 6}
    /\ fn_in.order_blocks = {}
    /\ fn_in.fvg_zones = {}
    /\ fn_out.plan.sl = EntryPrice - 8
    /\ fn_out.plan.rr.rr_num > 0

----------------------------------------------------------------------------
(* Claims on a disagreeing predictor (SpecGen) *)

\* The call got past the reasoning and the predictor without an exception,
\* on a reasoning confidence within [0, 100].
Blended ==
    /\ ReachedReasoning
    /\ gen_out.kind # "raised"
    /\ gen_out.ai_result.confidence_score >= 0
    /\ gen_out.ai_result.confidence_score <= 10000

\* The same call with no predictor loaded.
WithoutPredictor ==
    generate(gen_in.asset, gen_in.timeframe, gen_in.use_news,
             [gen_in EXCEPT !.ml = MLNotLoaded])

\* C27: when the predictor is loaded and predicts a direction other than
\* the reasoning direction, the call on a positive close returns a signal
\* with a confidence of at least 25; for a reasoning confidence below 25
\* that confidence is 25, above the reasoning confidence, and the same call
\* with no predictor loaded returns None.
C27_DisagreeFloor ==
    (Blended /\ Disagrees /\ gen_in.close > 0) =>
        /\ Returned
        /\ Sig.confidence_score >= 2500
        /\ gen_out.ai_result.confidence_score < 2500 =>
              /\ Sig.confidence_score = 2500
              /\ Sig.confidence_score > gen_out.ai_result.confidence_score
              /\ WithoutPredictor.kind = "none"

\* Reasoning said LONG at 24, the predictor SHORT: the signal is returned at
\* 25, and without the predictor the call returns None.
C27_Witness ==
    /\ Blended
    /\ Disagrees
    /\ gen_out.ai_result.direction = "LONG"
    /\ gen_out.ai_result.confidence_score = 2400
    /\ gen_out.ml.direction = "SHORT"
    /\ Returned
    /\ Sig.direction = "LONG"
    /\ Sig.confidence_score = 2500
    /\ WithoutPredictor.kind = "none"

----------------------------------------------------------------------------
(* Claims on the zones generate extracts from the detected patterns (SpecSR) *)

\* The pattern types of the claim: trend, breakout, double top/bottom,
\* head-and-shoulders, channel and range.
DetectorTypes ==
    {"trendline_up", "trendline_down", "breakout_up", "breakout_down",
     "double_top", "double_bottom", "head_shoulders", "head_shoulders_inverse",
     "channel_up", "channel_down", "range"}

\* What generate builds from pattern_results before the risk scenarios.
GenOrderBlocks == ZonesOf(fn_out.res, "order_block_bullish", "order_block_bearish")

GenFvgZones == ZonesOf(fn_out.res, "fvg_bullish", "fvg_bearish")

\* The levels generate computes on the same bars.
GenLevels ==
    compute_support_resistance(Series(fn_in.shape, fn_in.nbars), SRLookback,
                               num_levels_default, proximity_pct_default)

\* The stop of the scenario of direction d, for an ATR of 20 ticks on the
\* latest close.
GenStop(d) ==
    dynamic_sl(LastClose, 20, d, Range(GenLevels.supports), Range(GenLevels.resistances),
               GenOrderBlocks, GenFvgZones)

\* C28: detect_all emits only the listed pattern types, so the order blocks
\* and the gaps generate extracts from its result are empty, and the stop of
\* either scenario is 0.1 ATR beyond a support (LONG) or a resistance
\* (SHORT), or 1.5 ATR from the latest close.
C28_NoZones ==
    DetectReturned =>
        /\ \A i \in 1..Len(fn_out.res) : fn_out.res[i].pattern_type \in DetectorTypes
        /\ GenOrderBlocks = {}
        /\ GenFvgZones = {}
        /\ fn_in.nbars >= MinBars =>
              /\ GenStop("LONG") \in {s - 2 : s \in Range(GenLevels.supports)}
                                        \cup {LastClose - 30}
              /\ GenStop("SHORT") \in {r + 2 : r \in Range(GenLevels.resistances)}
                                         \cup {LastClose + 30}

\* A 100-bar wave gave patterns and levels; no zone came out of the
\* patterns and the LONG stop sits 0.1 ATR below a support.
C28_Witness ==
    /\ DetectReturned
    /\ fn_in.nbars = 100
    /\ Len(fn_out.res) >= 1
    /\ GenOrderBlocks = {}
    /\ GenFvgZones = {}
    /\ GenLevels.supports # << >>
    /\ GenStop("LONG") \in {s - 2 : s \in Range(GenLevels.supports)}

----------------------------------------------------------------------------
(* Claims on the tie-break of the consensus (Spec) *)

\* The position of a timeframe in the configured order.
TfIndex(tf) == CHOOSE k \in 1..Len(timeframes) : timeframes[k] = tf

\* The candidates of the promoted direction holding its largest confidence.
TopCandidates ==
    LET group == {i \in Indices(asset_signals) :
                     asset_signals[i].direction = Promoted.direction}
        top == SetMax({asset_signals[i].confidence_score : i \in group})
    IN  {i \in group : asset_signals[i].confidence_score = top}

\* C29: the signal promoted for an asset is, among the candidates of its
\* direction that share the largest confidence, the one whose timeframe
\* comes first in the configured order; it is appended for the asset being
\* processed, after the signals of the assets before it.
C29_TieBreak ==
    [][(AggregateStep /\ final_signals' # final_signals) =>
        /\ SubSeq(final_signals', 1, Len(final_signals)) = final_signals
        /\ Promoted.asset = supported_assets[asset_i]
        /\ \E i \in TopCandidates : asset_signals[i].timeframe = Promoted.timeframe
        /\ \A i \in TopCandidates :
              TfIndex(Promoted.timeframe) <= TfIndex(asset_signals[i].timeframe)
      ]_vars

\* Of three LONG candidates the second and the third (2h and 4h) tied at 80
\* above the first: the 2h one was promoted.
C29_Witness ==
    /\ pc = "asset"
    /\ asset_i > 1
    /\ Len(asset_signals) >= 3
    /\ asset_signals[1].direction = "LONG"
    /\ asset_signals[1].confidence_score = 6000
    /\ asset_signals[2].direction = "LONG"
    /\ asset_signals[2].confidence_score = 8000
    /\ asset_signals[2].timeframe = "2h"
    /\ asset_signals[3].direction = "LONG"
    /\ asset_signals[3].confidence_score = 8000
    /\ asset_signals[3].timeframe = "4h"
    /\ final_signals # << >>
    /\ final_signals[Len(final_signals)].asset = asset_signals[1].asset
    /\ final_signals[Len(final_signals)].timeframe = "2h"

====
